---- MODULE Spec2Model ----
(***************************************************************************)
(* orderflow-rs: the simulation engine's tick loop (src/src/engine.rs),    *)
(* the regime state machine (src/src/regime.rs), the scenario profiles     *)
(* (src/src/scenario.rs) and the control listener.                         *)
(*                                                                         *)
(* Units.  Simulated time is counted in seconds and every run modelled     *)
(* here has tick_interval = 1 s, so dt_seconds = 1.  Prices are counted in *)
(* hundredths (0.01), probabilities in percent.  Every draw from the       *)
(* engine's random generator is a nondeterministic choice from the set of  *)
(* values the draw can return, cut down to the finite sets named in env.   *)
(***************************************************************************)
EXTENDS Integers, Sequences, FiniteSets, TLC

VARIABLES
    cfg,                 \* AppConfig: the resolved configuration (never changes)
    env,                 \* the environment of the run: draw sets, datagrams, horizon
    pc,                  \* the engine's position in run()
    running,             \* the shared AtomicBool
    state,               \* RegimeState
    forced_event_fired,
    runtime,             \* RuntimeTunables
    mid,
    next_id,
    active_orders,       \* HashMap<u64, Order>: a function from ids to orders
    current_time,
    last_printed_regime,
    stats,               \* TickStats
    time_since_display,
    params,              \* the regime whose parameters the tick uses (line 467)
    tick_orders,         \* the batch of the tick in progress
    tick,                \* what the tick in progress has done so far
    queue,               \* the mpsc channel from the listener to the engine
    received,            \* datagrams the listener has received so far
    responses,           \* the responses the listener has sent, oldest first
    wire,                \* the messages handed to the multicast socket, oldest first
    out,                 \* the event lines of the iteration in progress
    active2,             \* the active index of a second run with the same seed
    wire2,               \* the wire trace of that second run
    warnings,            \* how many "invalid control value" lines the engine has printed
    listener,            \* the listener thread's position in its loop
    pause_regime         \* history: the regime a `regime` command set while paused

vars == <<cfg, env, pc, running, state, forced_event_fired, runtime, mid, next_id,
          active_orders, current_time, last_printed_regime, stats,
          time_since_display, params, tick_orders, tick, queue, received,
          responses, wire, out, active2, wire2, warnings, listener, pause_regime>>

-----------------------------------------------------------------------------
(* Bounds of the model.                                                    *)

MaxTime == 3          \* simulated seconds of a run that generates orders
MaxLongTime == 12     \* simulated seconds of a run that generates none
MaxOrders == 2        \* order ids a run hands out
MaxPerTick == 2       \* the largest Poisson draw
MaxDatagrams == 2     \* datagrams the control listener receives in a run
MaxMid == 8           \* the largest mid price, in hundredths
MaxFlashTime == 17    \* simulated seconds of a flash-crash run
MaxPauseDatagrams == 3  \* datagrams received in the runs that pause and resume
MaxPauseTime == 1     \* simulated seconds of those runs
MaxRegimeTime == 9    \* simulated seconds of a run that follows the regime

Max(a, b) == IF a >= b THEN a ELSE b
Min(a, b) == IF a <= b THEN a ELSE b

RECURSIVE SeqsOver(_, _)
(* All sequences of length n over the set S. *)
SeqsOver(S, n) ==
    IF n = 0 THEN {<<>>}
    ELSE {<<x>> \o s : x \in S, s \in SeqsOver(S, n - 1)}

(* All orderings of the finite set S, as sequences without repetition. *)
Orderings(S) ==
    {s \in SeqsOver(S, Cardinality(S)) : \A i, j \in 1..Len(s) : i # j => s[i] # s[j]}

(* The sequence s with its elements rearranged by the permutation p of 1..Len(s). *)
Permuted(s, p) == [i \in 1..Len(s) |-> s[p[i]]]

-----------------------------------------------------------------------------
(* regime.rs                                                               *)

Calm == "CALM"
Volatile == "VOLATILE"
Crash == "CRASH"
Rally == "RALLY"
Recovery == "RECOVERY"

ALL == <<Calm, Volatile, Crash, Rally, Recovery>>
Regimes == {ALL[i] : i \in 1..Len(ALL)}

(* Rates per second, mu in thousandths per second, half_spread in          *)
(* hundredths, size_mult in tenths, durations in seconds.                  *)
REGIME_TABLE ==
    [r \in Regimes |->
        CASE r = Calm ->
               [mu |-> 0, limit_rate |-> 50, market_rate |-> 5, cancel_rate |-> 20,
                half_spread |-> 3, size_mult |-> 10, min_duration |-> 5, max_duration |-> 30]
          [] r = Volatile ->
               [mu |-> 0, limit_rate |-> 80, market_rate |-> 15, cancel_rate |-> 40,
                half_spread |-> 8, size_mult |-> 15, min_duration |-> 3, max_duration |-> 15]
          [] r = Crash ->
               [mu |-> -45, limit_rate |-> 15, market_rate |-> 45, cancel_rate |-> 80,
                half_spread |-> 25, size_mult |-> 30, min_duration |-> 2, max_duration |-> 10]
          [] r = Rally ->
               [mu |-> 35, limit_rate |-> 25, market_rate |-> 35, cancel_rate |-> 50,
                half_spread |-> 15, size_mult |-> 25, min_duration |-> 2, max_duration |-> 12]
          [] r = Recovery ->
               [mu |-> 5, limit_rate |-> 60, market_rate |-> 8, cancel_rate |-> 25,
                half_spread |-> 5, size_mult |-> 10, min_duration |-> 3, max_duration |-> 15]]

(* Regime::index, counted from 1. *)
Index(regime) == CHOOSE i \in 1..Len(ALL) : ALL[i] = regime

(* pub fn params *)
Params(regime) == REGIME_TABLE[regime]

(* Markov transition probabilities, in thousandths; rows = from. *)
TRANSITION_PROB ==
    [r \in Regimes |->
        CASE r = Calm     -> <<0, 8, 3, 3, 0>>
          [] r = Volatile -> <<5, 0, 8, 6, 4>>
          [] r = Crash    -> <<0, 4, 0, 2, 20>>
          [] r = Rally    -> <<0, 6, 2, 0, 15>>
          [] r = Recovery -> <<15, 4, 1, 2, 0>>]

(* random_regime_duration: gen_range(min..=max).  time_in_regime is a whole *)
(* number of seconds here, so a duration d acts as its ceiling; the draw is *)
(* cut down to the two ends of the window.                                 *)
DurationDraws(regime) ==
    {Params(regime).min_duration, Params(regime).max_duration}

(* RegimeState::new *)
NewRegimeState(regime, duration) ==
    [current |-> regime, time_in_regime |-> 0,
     regime_duration |-> duration, previous |-> regime]

(* Mutant: transition_to keeps the duration drawn for the regime it leaves. *)
TransitionToKeepsDuration(s, next, duration) ==
    [previous |-> s.current, current |-> next,
     time_in_regime |-> 0, regime_duration |-> s.regime_duration]

(* Mutant: transition_to leaves time_in_regime as it is. *)
TransitionToKeepsTime(s, next, duration) ==
    [previous |-> s.current, current |-> next,
     time_in_regime |-> s.time_in_regime, regime_duration |-> duration]

(* RegimeState::transition_to, with the duration its rng draw returns. *)
TransitionTo(s, next, duration) ==
    [previous |-> s.current, current |-> next,
     time_in_regime |-> 0, regime_duration |-> duration]

RECURSIVE Cumulative(_, _)
(* The running sum of row[1..to]. *)
Cumulative(row, to) == IF to = 0 THEN 0 ELSE Cumulative(row, to - 1) + row[to]

(* Mutant: the walk of the row does not stop at the first hit. *)
WalkRowToLastHit(s, roll) ==
    LET row == TRANSITION_PROB[s.current]
        hits == {to \in 1..Len(row) : roll < Cumulative(row, to)}
    IN  IF hits = {} THEN s.current
        ELSE ALL[CHOOSE to \in hits : \A t \in hits : to >= t]

(* try_transition's walk of the row: the first column whose cumulative     *)
(* probability exceeds roll (in thousandths, 0..999), else the current     *)
(* regime.                                                                 *)
WalkRow(s, roll) ==
    LET row == TRANSITION_PROB[s.current]
        hits == {to \in 1..Len(row) : roll < Cumulative(row, to)}
    IN  IF hits = {} THEN s.current
        ELSE ALL[CHOOSE to \in hits : \A t \in hits : to <= t]

(* The rolls the model draws: one inside every bucket of the row and one   *)
(* past the row's sum.                                                     *)
Rolls(regime) ==
    LET row == TRANSITION_PROB[regime]
    IN  {Cumulative(row, to) - 1 : to \in {t \in 1..Len(row) : row[t] > 0}}
        \cup {Cumulative(row, Len(row))}

(* Mutant: the scenario's allow_transitions flag is not consulted. *)
TryTransitionAlways(s, allow_transitions) ==
    IF s.time_in_regime < s.regime_duration THEN {s.current}
    ELSE {WalkRow(s, roll) : roll \in Rolls(s.current)}

(* pub fn try_transition: the regimes it can return. *)
TryTransition(s, allow_transitions) ==
    IF ~allow_transitions THEN {s.current}
    ELSE IF s.time_in_regime < s.regime_duration THEN {s.current}
    ELSE {WalkRow(s, roll) : roll \in Rolls(s.current)}

-----------------------------------------------------------------------------
(* scenario.rs                                                             *)

Scenarios == {"normal", "crash", "volatile", "flash-crash", "rally"}

(* ScenarioConfig::from_scenario *)
FromScenario(scenario) ==
    CASE scenario = "normal" ->
           [starting_regime |-> Calm, forced_event_time |-> -1,
            forced_regime |-> Calm, allow_transitions |-> TRUE]
      [] scenario = "crash" ->
           [starting_regime |-> Calm, forced_event_time |-> 10,
            forced_regime |-> Crash, allow_transitions |-> TRUE]
      [] scenario = "volatile" ->
           [starting_regime |-> Volatile, forced_event_time |-> -1,
            forced_regime |-> Volatile, allow_transitions |-> FALSE]
      [] scenario = "flash-crash" ->
           [starting_regime |-> Calm, forced_event_time |-> 8,
            forced_regime |-> Crash, allow_transitions |-> TRUE]
      [] scenario = "rally" ->
           [starting_regime |-> Calm, forced_event_time |-> 10,
            forced_regime |-> Rally, allow_transitions |-> TRUE]

scenario_cfg == FromScenario(cfg.scenario)

(* Mutant: the override draws from 1.0 + u * 4.0. *)
FlashCrashDurationsFromOne == {1, 5}

(* The flash-crash override 3.0 + u * 4.0, cut down to its two ends. *)
FlashCrashDurations == {3, 7}

-----------------------------------------------------------------------------
(* engine.rs: the control plane                                            *)

None == [some |-> FALSE]
Some(x) == [some |-> TRUE, v |-> x]

(* A datagram is the sequence of its whitespace-separated tokens (what     *)
(* trim and split_whitespace leave of it).                                 *)

(* to_ascii_lowercase, on the tokens the model sends. *)
ToAsciiLowercase(tok) ==
    CASE tok = "PAUSE" -> "pause"
      [] tok = "Rate" -> "rate"
      [] tok = "REGIME" -> "regime"
      [] tok = "Crash" -> "crash"
      [] OTHER -> tok

(* str::parse::<f64>, on the tokens the model sends. *)
ParseF64(tok) ==
    CASE tok = "0" -> Some(0)
      [] tok = "1" -> Some(1)
      [] tok = "2" -> Some(2)
      [] tok = "-1" -> Some(-1)
      [] OTHER -> None

(* fn parse_regime *)
ParseRegime(s) ==
    CASE s = "calm" -> Some(Calm)
      [] s = "volatile" -> Some(Volatile)
      [] s = "crash" -> Some(Crash)
      [] s = "rally" -> Some(Rally)
      [] s = "recovery" -> Some(Recovery)
      [] OTHER -> None

Cmd(kind, v, r) == [kind |-> kind, v |-> v, r |-> r]

(* fn parse_control_command *)
ParseControlCommand(input) ==
    IF input = <<>> THEN None
    ELSE LET cmd == ToAsciiLowercase(input[1])
             arg == IF Len(input) >= 2 THEN Some(input[2]) ELSE None
         IN  CASE cmd = "pause" -> Some(Cmd("Pause", 0, ""))
               [] cmd = "resume" -> Some(Cmd("Resume", 0, ""))
               [] cmd = "reload" -> Some(Cmd("Reload", 0, ""))
               [] cmd = "stats" -> Some(Cmd("Stats", 0, ""))
               [] cmd \in {"rate", "throughput"} ->
                    IF ~arg.some THEN None
                    ELSE IF ~ParseF64(arg.v).some THEN None
                    ELSE Some(Cmd("Throughput", ParseF64(arg.v).v, ""))
               [] cmd = "display" ->
                    IF ~arg.some THEN None
                    ELSE IF ~ParseF64(arg.v).some THEN None
                    ELSE Some(Cmd("DisplayInterval", ParseF64(arg.v).v, ""))
               [] cmd = "regime" ->
                    IF ~arg.some THEN None
                    ELSE IF ~ParseRegime(ToAsciiLowercase(arg.v)).some THEN None
                    ELSE Some(Cmd("Regime", 0, ParseRegime(ToAsciiLowercase(arg.v)).v))
               [] OTHER -> None

-----------------------------------------------------------------------------
(* engine.rs: orders, the active index and the wire                        *)

dt_seconds == cfg.tick_interval

(* TickStats::new and TickStats::reset *)
NewTickStats ==
    [limits_generated |-> 0, markets_generated |-> 0, cancels_expired |-> 0,
     cancels_regime |-> 0, messages_sent |-> 0]

(* The empty HashMap. *)
EmptyMap == [id \in {} |-> 0]

(* HashMap::insert *)
Insert(map, id, o) == [k \in DOMAIN map \cup {id} |-> IF k = id THEN o ELSE map[k]]

(* Mutant: the cancelled order stays in the index. *)
RemoveNothing(map, id) == map

(* HashMap::remove *)
Remove(map, id) == [k \in DOMAIN map \ {id} |-> map[k]]

(* Mutant: a rate of zero is drawn from too. *)
PoissonDrawsAtZero(lambda, cap) == IF lambda >= 0 THEN 0..cap ELSE {0}

(* A Poisson draw with rate lambda, cut at cap; no draw when lambda <= 0. *)
PoissonDraws(lambda, cap) == IF lambda > 0 THEN 0..cap ELSE {0}

(* f64::round of a / t: the nearest whole number, halves away from zero. *)
RoundDiv(a, t) ==
    IF a >= 0 THEN (2 * a + t) \div (2 * t) ELSE -((2 * (-a) + t) \div (2 * t))

(* One limit order of the tick (lines 503-524), from its draws. *)
LimitOrder(id, side, exp_draw, size_draw, ttl) ==
    LET offset == Params(params).half_spread + exp_draw
        raw_price == IF side = "BUY" THEN mid - offset ELSE mid + offset
    IN  [id |-> id, side |-> side, order_type |-> "LIMIT",
         price |-> RoundDiv(raw_price, cfg.tick_size) * cfg.tick_size,
         size |-> Max(size_draw, 1), created_at |-> current_time, ttl |-> ttl]

(* Mutant: the market order takes the id before the counter's. *)
MarketOrderStaleId(id, side, size_draw) ==
    [id |-> Max(id - 1, 0), side |-> side, order_type |-> "MARKET",
     price |-> IF side = "BUY" THEN 99999900 ELSE 0,
     size |-> Max(RoundDiv(size_draw * Params(params).size_mult, 20), 1),
     created_at |-> current_time, ttl |-> 0]

(* One market order of the tick (lines 537-557), from its draws. *)
MarketOrder(id, side, size_draw) ==
    [id |-> id, side |-> side, order_type |-> "MARKET",
     price |-> IF side = "BUY" THEN 99999900 ELSE 0,
     size |-> Max(RoundDiv(size_draw * Params(params).size_mult, 20), 1),
     created_at |-> current_time, ttl |-> 0]

(* The draws Uniform::new(ttl_min, ttl_max) can return, as the whole number *)
(* of seconds after which the expiry test first holds.                     *)
TtlDraws == {cfg.ttl_min, cfg.ttl_max}

RECURSIVE LimitBatches(_, _)
(* Every batch the loop of lines 502-526 can push: n limit orders with     *)
(* consecutive ids from first.                                             *)
LimitBatches(first, n) ==
    IF n = 0 THEN {<<>>}
    ELSE {<<LimitOrder(first, side, e, z, ttl)>> \o rest :
            side \in env.sides, e \in env.exp_draws, z \in env.size_draws,
            ttl \in TtlDraws, rest \in LimitBatches(first + 1, n - 1)}

RECURSIVE MarketBatches(_, _)
(* Every batch the loop of lines 536-559 can push. *)
MarketBatches(first, n) ==
    IF n = 0 THEN {<<>>}
    ELSE {<<MarketOrder(first, side, z)>> \o rest :
            side \in env.sides, z \in env.size_draws,
            rest \in MarketBatches(first + 1, n - 1)}

(* Order::to_wire_text / to_wire_binary: the fields an order message carries. *)
OrderMsg(o) ==
    [msg |-> "ORDER", id |-> o.id, side |-> o.side, type |-> o.order_type,
     price |-> o.price, size |-> o.size, time |-> o.created_at]

(* cancel_to_wire_text / cancel_to_wire_binary *)
CancelMsg(order_id, now) ==
    [msg |-> "CANCEL", id |-> order_id, side |-> "", type |-> "",
     price |-> 0, size |-> 0, time |-> now]

(* Mutant: the send loop inserts every order. *)
RetainedAll(o) == TRUE

(* Whether the send loop inserts the order into the active index (line 568). *)
Retained(o) == o.order_type = "LIMIT"

(* Mutant: the send loop sends the batch and inserts nothing. *)
SendOrdersNoInsert(active, w, batch) ==
    [active |-> active, wire |-> w \o [i \in 1..Len(batch) |-> OrderMsg(batch[i])]]

RECURSIVE SendOrders(_, _, _)
(* Lines 565-571: send each order of the batch, insert the limit orders.   *)
SendOrders(active, w, batch) ==
    IF batch = <<>> THEN [active |-> active, wire |-> w]
    ELSE LET o == Head(batch)
         IN  SendOrders(IF Retained(o) THEN Insert(active, o.id, o) ELSE active,
                        Append(w, OrderMsg(o)), Tail(batch))

(* Mutant: the filter compares with > instead of >=. *)
IsExpiredLate(o, now) == o.ttl > 0 /\ (now - o.created_at) > o.ttl

(* The filter of line 576. *)
IsExpired(o, now) == o.ttl > 0 /\ (now - o.created_at) >= o.ttl

(* Mutant: the expiry scan is skipped when nothing is being generated. *)
ExpiredWhenGenerating(active, iteration, now) ==
    IF runtime.throughput_scale = 0 THEN <<>>
    ELSE SelectSeq(iteration, LAMBDA id : IsExpired(active[id], now))

(* Lines 574-578: the expired ids, in the order the map was iterated. *)
Expired(active, iteration, now) ==
    SelectSeq(iteration, LAMBDA id : IsExpired(active[id], now))

(* Mutant: every cancel is sent twice. *)
SendCancelsTwice(active, w, ids, now) ==
    [active |-> [id \in DOMAIN active \ {ids[i] : i \in 1..Len(ids)} |-> active[id]],
     wire |-> w \o [i \in 1..(2 * Len(ids)) |-> CancelMsg(ids[(i + 1) \div 2], now)]]

(* Mutant: the cancels are put on the wire ahead of what was sent before. *)
SendCancelsAhead(active, w, ids, now) ==
    [active |-> [id \in DOMAIN active \ {ids[i] : i \in 1..Len(ids)} |-> active[id]],
     wire |-> [i \in 1..Len(ids) |-> CancelMsg(ids[i], now)] \o w]

RECURSIVE SendCancels(_, _, _, _)
(* Lines 580-584 and 603-604: send a cancel for each id and remove it.     *)
SendCancels(active, w, ids, now) ==
    IF ids = <<>> THEN [active |-> active, wire |-> w]
    ELSE SendCancels(Remove(active, Head(ids)),
                     Append(w, CancelMsg(Head(ids), now)), Tail(ids), now)

(* Line 596 with the guard of line 595. *)
CancelCount(num_cancels, active) ==
    IF num_cancels > 0 /\ DOMAIN active # {}
    THEN Min(num_cancels, Cardinality(DOMAIN active)) ELSE 0

RECURSIVE CancelPicksWithReplacement(_, _)
(* Mutant: a picked id stays among the candidates. *)
CancelPicksWithReplacement(ids, idxs) ==
    IF idxs = <<>> \/ ids = {} THEN {<<>>}
    ELSE UNION {{<<pick>> \o rest : rest \in CancelPicksWithReplacement(ids, Tail(idxs))} :
                 pick \in {keys[(Head(idxs) % Len(keys)) + 1] : keys \in Orderings(ids)}}

RECURSIVE CancelPicks(_, _)
(* Lines 597-607: the ids the loop picks.  Every pass collects the keys in *)
(* the map's iteration order and takes the one at the index the generator  *)
(* draws (idxs holds the draws).                                           *)
CancelPicks(ids, idxs) ==
    IF idxs = <<>> \/ ids = {} THEN {<<>>}
    ELSE UNION {{<<pick>> \o rest : rest \in CancelPicks(ids \ {pick}, Tail(idxs))} :
                 pick \in {keys[(Head(idxs) % Len(keys)) + 1] : keys \in Orderings(ids)}}

-----------------------------------------------------------------------------
(* engine.rs: run()                                                        *)

(* An event line; m is the mid price the line prints (0 when it prints none). *)
Event(tag, m) == [tag |-> tag, mid |-> m]

(* What the tick in progress has done: the active count it started from    *)
(* and the locals num_limits, num_markets, expired, num_cancels, and the   *)
(* ids the cancellation loop picked.                                       *)
NewTick(active) ==
    [active_before |-> Cardinality(DOMAIN active), num_limits |-> 0,
     num_markets |-> 0, expired |-> <<>>, num_cancels |-> 0, picks |-> <<>>]

(* Lines 272-347: the state run() builds before its loop. *)
Init(cfgs, envs) ==
    /\ cfg \in cfgs
    /\ env \in envs
    /\ pc = "loop"
    /\ running = TRUE
    /\ \E d \in DurationDraws(scenario_cfg.starting_regime) :
          state = NewRegimeState(scenario_cfg.starting_regime, d)
    /\ forced_event_fired = FALSE
    /\ runtime = [throughput_scale |-> cfg.throughput_scale,
                  display_interval |-> cfg.display_interval,
                  shock_prob |-> cfg.shock_prob, paused |-> FALSE]
    /\ mid = cfg.initial_price
    /\ next_id = 0
    /\ active_orders = EmptyMap
    /\ current_time = 0
    /\ last_printed_regime = scenario_cfg.starting_regime
    /\ stats = NewTickStats
    /\ time_since_display = 0
    /\ params = scenario_cfg.starting_regime
    /\ tick_orders = <<>>
    /\ tick = NewTick(EmptyMap)
    /\ queue = <<>>
    /\ received = 0
    /\ responses = <<>>
    /\ wire = <<>>
    /\ out = <<>>
    /\ active2 = EmptyMap
    /\ wire2 = <<>>
    /\ warnings = 0
    /\ listener = IF cfg.control_enabled THEN "recv" ELSE "none"
    /\ pause_regime = None

(* Mutant: the loop condition is `true`. *)
LoopCheckForever ==
    /\ UNCHANGED <<warnings, listener, pause_regime>>
    /\ pc = "loop"
    /\ running => current_time < env.horizon
    /\ pc' = IF cfg.control_enabled THEN "drain" ELSE "pause"
    /\ out' = <<>>
    /\ UNCHANGED <<cfg, env, running, state, forced_event_fired, runtime, mid, next_id,
                   active_orders, current_time, last_printed_regime, stats,
                   time_since_display, params, tick_orders, tick, queue, received,
                   responses, wire, active2, wire2>>

(* Mutant: a paused engine goes to sleep without looking at the channel. *)
LoopCheckSleepsWhenPaused ==
    /\ UNCHANGED <<warnings, listener, pause_regime>>
    /\ pc = "loop"
    /\ running => current_time < env.horizon
    /\ pc' = IF ~running THEN "shutdown"
             ELSE IF cfg.control_enabled /\ ~runtime.paused THEN "drain" ELSE "pause"
    /\ out' = <<>>
    /\ UNCHANGED <<cfg, env, running, state, forced_event_fired, runtime, mid, next_id,
                   active_orders, current_time, last_printed_regime, stats,
                   time_since_display, params, tick_orders, tick, queue, received,
                   responses, wire, active2, wire2>>

(* Line 349: the loop condition.  A run stops starting iterations at the   *)
(* horizon of the model.                                                   *)
LoopCheck ==
    /\ UNCHANGED <<warnings, listener, pause_regime>>
    /\ pc = "loop"
    /\ running => current_time < env.horizon
    /\ pc' = IF ~running THEN "shutdown"
             ELSE IF cfg.control_enabled THEN "drain" ELSE "pause"
    /\ out' = <<>>
    /\ UNCHANGED <<cfg, env, running, state, forced_event_fired, runtime, mid, next_id,
                   active_orders, current_time, last_printed_regime, stats,
                   time_since_display, params, tick_orders, tick, queue, received,
                   responses, wire, active2, wire2>>

(* Lines 374-394: what `reload` can find: no path, an unreadable or        *)
(* unparsable file, or a file with these three values.                     *)
(* Mutant: the file is read whether or not a path was captured. *)
ReloadOutcomesIgnoresPath == env.reloads

ReloadOutcomes ==
    IF ~cfg.config_path THEN {[ok |-> FALSE, why |-> "unavailable", v |-> <<>>]}
    ELSE env.reloads

(* Mutant: the match guards of lines 361 and 365 are missing. *)
ApplyRuntimeUnguarded(cmd, rt, file) ==
    CASE cmd.kind = "Pause" -> [rt EXCEPT !.paused = TRUE]
      [] cmd.kind = "Resume" -> [rt EXCEPT !.paused = FALSE]
      [] cmd.kind = "Throughput" -> [rt EXCEPT !.throughput_scale = cmd.v]
      [] cmd.kind = "DisplayInterval" -> [rt EXCEPT !.display_interval = cmd.v]
      [] cmd.kind = "Reload" /\ file.ok ->
           [rt EXCEPT !.throughput_scale = file.v[1],
                      !.display_interval = file.v[2],
                      !.shock_prob = file.v[3]]
      [] OTHER -> rt

(* Mutant: `stats` clears the paused flag. *)
ApplyRuntimeStatsResumes(cmd, rt, file) ==
    CASE cmd.kind = "Pause" -> [rt EXCEPT !.paused = TRUE]
      [] cmd.kind = "Resume" -> [rt EXCEPT !.paused = FALSE]
      [] cmd.kind = "Stats" -> [rt EXCEPT !.paused = FALSE]
      [] cmd.kind = "Throughput" /\ cmd.v >= 0 -> [rt EXCEPT !.throughput_scale = cmd.v]
      [] cmd.kind = "DisplayInterval" /\ cmd.v > 0 -> [rt EXCEPT !.display_interval = cmd.v]
      [] cmd.kind = "Reload" /\ file.ok ->
           [rt EXCEPT !.throughput_scale = file.v[1],
                      !.display_interval = file.v[2],
                      !.shock_prob = file.v[3]]
      [] OTHER -> rt

(* Lines 352-408: one command applied to the tunables and the regime state; *)
(* file is what `reload` finds and d the duration transition_to draws.     *)
ApplyRuntime(cmd, rt, file) ==
    CASE cmd.kind = "Pause" -> [rt EXCEPT !.paused = TRUE]
      [] cmd.kind = "Resume" -> [rt EXCEPT !.paused = FALSE]
      [] cmd.kind = "Throughput" /\ cmd.v >= 0 -> [rt EXCEPT !.throughput_scale = cmd.v]
      [] cmd.kind = "DisplayInterval" /\ cmd.v > 0 -> [rt EXCEPT !.display_interval = cmd.v]
      [] cmd.kind = "Reload" /\ file.ok ->
           [rt EXCEPT !.throughput_scale = file.v[1],
                      !.display_interval = file.v[2],
                      !.shock_prob = file.v[3]]
      [] OTHER -> rt

ApplyRegime(cmd, s, d) ==
    IF cmd.kind = "Regime" THEN TransitionTo(s, cmd.r, d) ELSE s

(* Lines 397-405: the line `stats` prints, with the six values it reads. *)
StatsLine ==
    [tag |-> "control stats", mid |-> mid, t |-> current_time,
     regime |-> state.current, active |-> Cardinality(DOMAIN active_orders),
     paused |-> runtime.paused, throughput |-> runtime.throughput_scale]

(* The event line the command's arm prints. *)
ApplyEvent(cmd, file) ==
    CASE cmd.kind = "Pause" -> Event("control pause", 0)
      [] cmd.kind = "Resume" -> Event("control resume", 0)
      [] cmd.kind = "Throughput" /\ cmd.v >= 0 -> Event("control throughput", 0)
      [] cmd.kind = "DisplayInterval" /\ cmd.v > 0 -> Event("control display_interval", 0)
      [] cmd.kind = "Regime" -> Event("control regime", 0)
      [] cmd.kind = "Reload" ->
           IF file.ok THEN Event("control reload ok", 0)
           ELSE Event("reload " \o file.why, 0)
      [] cmd.kind = "Stats" -> StatsLine
      [] OTHER -> Event("invalid control value", 0)

(* 1 when the line is the warning of line 407. *)
Warned(event) == IF event.tag = "invalid control value" THEN 1 ELSE 0

(* History: a `regime` command applied while the paused flag is set is     *)
(* remembered; one applied while it is clear is not.                       *)
HeldRegime(cmd, rt, held) ==
    IF cmd.kind = "Regime" THEN (IF rt.paused THEN Some(cmd.r) ELSE None) ELSE held

(* Mutant: the drain takes the newest command first. *)
DrainNewestFirst ==
    /\ UNCHANGED listener
    /\ pc = "drain"
    /\ IF queue = <<>>
       THEN /\ pc' = "pause"
            /\ UNCHANGED <<queue, runtime, state, out, warnings, pause_regime>>
       ELSE LET cmd == queue[Len(queue)]
            IN  /\ queue' = SubSeq(queue, 1, Len(queue) - 1)
                /\ pc' = "drain"
                /\ \E file \in (IF cmd.kind = "Reload" THEN ReloadOutcomes
                                ELSE {[ok |-> FALSE, why |-> "", v |-> <<>>]}),
                      d \in (IF cmd.kind = "Regime" THEN DurationDraws(cmd.r) ELSE {0}) :
                      /\ runtime' = ApplyRuntime(cmd, runtime, file)
                      /\ state' = ApplyRegime(cmd, state, d)
                      /\ out' = Append(out, ApplyEvent(cmd, file))
                      /\ warnings' = warnings + Warned(ApplyEvent(cmd, file))
                      /\ pause_regime' = HeldRegime(cmd, runtime, pause_regime)
    /\ UNCHANGED <<cfg, env, running, forced_event_fired, mid, next_id,
                   active_orders, current_time, last_printed_regime, stats,
                   time_since_display, params, tick_orders, tick, received,
                   responses, wire, active2, wire2>>

(* Lines 351-409: one pass of the while-let loop: apply the next command,  *)
(* or leave the loop when try_recv finds the channel empty.                *)
Drain ==
    /\ UNCHANGED listener
    /\ pc = "drain"
    /\ IF queue = <<>>
       THEN /\ pc' = "pause"
            /\ UNCHANGED <<queue, runtime, state, out, warnings, pause_regime>>
       ELSE LET cmd == Head(queue)
            IN  /\ queue' = Tail(queue)
                /\ pc' = "drain"
                /\ \E file \in (IF cmd.kind = "Reload" THEN ReloadOutcomes
                                ELSE {[ok |-> FALSE, why |-> "", v |-> <<>>]}),
                      d \in (IF cmd.kind = "Regime" THEN DurationDraws(cmd.r) ELSE {0}) :
                      /\ runtime' = ApplyRuntime(cmd, runtime, file)
                      /\ state' = ApplyRegime(cmd, state, d)
                      /\ out' = Append(out, ApplyEvent(cmd, file))
                      /\ warnings' = warnings + Warned(ApplyEvent(cmd, file))
                      /\ pause_regime' = HeldRegime(cmd, runtime, pause_regime)
    /\ UNCHANGED <<cfg, env, running, forced_event_fired, mid, next_id,
                   active_orders, current_time, last_printed_regime, stats,
                   time_since_display, params, tick_orders, tick, received,
                   responses, wire, active2, wire2>>

(* Mutant: the paused flag is not looked at. *)
PauseCheckIgnored ==
    /\ UNCHANGED <<warnings, listener, pause_regime>>
    /\ pc = "pause"
    /\ pc' = "forced"
    /\ tick' = NewTick(active_orders)
    /\ UNCHANGED <<cfg, env, running, state, forced_event_fired, runtime, mid, next_id,
                   active_orders, current_time, last_printed_regime, stats,
                   time_since_display, params, tick_orders, queue, received,
                   responses, wire, out, active2, wire2>>

(* Lines 412-415: a paused iteration sleeps and starts over. *)
PauseCheck ==
    /\ UNCHANGED <<warnings, listener, pause_regime>>
    /\ pc = "pause"
    /\ pc' = IF runtime.paused THEN "loop" ELSE "forced"
    /\ tick' = IF runtime.paused THEN tick ELSE NewTick(active_orders)
    /\ UNCHANGED <<cfg, env, running, state, forced_event_fired, runtime, mid, next_id,
                   active_orders, current_time, last_printed_regime, stats,
                   time_since_display, params, tick_orders, queue, received,
                   responses, wire, out, active2, wire2>>

(* Mutant: the event is not marked as fired. *)
ForcedEventRepeats ==
    /\ UNCHANGED <<warnings, listener, pause_regime>>
    /\ pc = "forced"
    /\ pc' = "shock"
    /\ IF /\ ~forced_event_fired
          /\ scenario_cfg.forced_event_time > 0
          /\ current_time >= scenario_cfg.forced_event_time
       THEN /\ forced_event_fired' = forced_event_fired
            /\ \E d \in DurationDraws(scenario_cfg.forced_regime),
                  o \in FlashCrashDurations :
                  state' = LET s == TransitionTo(state, scenario_cfg.forced_regime, d)
                           IN  IF cfg.scenario = "flash-crash"
                               THEN [s EXCEPT !.regime_duration = o] ELSE s
            /\ out' = Append(out, Event("forced event", 0))
       ELSE UNCHANGED <<forced_event_fired, state, out>>
    /\ UNCHANGED <<cfg, env, running, runtime, mid, next_id,
                   active_orders, current_time, last_printed_regime, stats,
                   time_since_display, params, tick_orders, tick, queue, received,
                   responses, wire, active2, wire2>>

(* Lines 418-434: the scenario's forced event. *)
ForcedEvent ==
    /\ UNCHANGED <<warnings, listener, pause_regime>>
    /\ pc = "forced"
    /\ pc' = "shock"
    /\ IF /\ ~forced_event_fired
          /\ scenario_cfg.forced_event_time > 0
          /\ current_time >= scenario_cfg.forced_event_time
       THEN /\ forced_event_fired' = TRUE
            /\ \E d \in DurationDraws(scenario_cfg.forced_regime),
                  o \in FlashCrashDurations :
                  state' = LET s == TransitionTo(state, scenario_cfg.forced_regime, d)
                           IN  IF cfg.scenario = "flash-crash"
                               THEN [s EXCEPT !.regime_duration = o] ELSE s
            /\ out' = Append(out, Event("forced event", 0))
       ELSE UNCHANGED <<forced_event_fired, state, out>>
    /\ UNCHANGED <<cfg, env, running, runtime, mid, next_id,
                   active_orders, current_time, last_printed_regime, stats,
                   time_since_display, params, tick_orders, tick, queue, received,
                   responses, wire, active2, wire2>>

(* Line 437: whether rng.gen::<f64>() < shock_prob can come out as b. *)
ShockDraws == {b \in BOOLEAN : IF b THEN runtime.shock_prob > 0 ELSE runtime.shock_prob < 100}

(* Line 442 and line 478: f64::max with the tick size. *)
Clamp(m) == Max(m, cfg.tick_size)

(* Lines 438-442: mid after a shock of pct percent in the given direction. *)
Shocked(m, pct, direction) == Clamp((m * (100 + direction * pct)) \div 100)

(* Mutant: a shock moves the regime whatever it is. *)
ShockRegimeAnywhere(s, direction) ==
    Some(IF direction < 0 THEN Crash ELSE Rally)

(* Lines 453-458: the regime a shock moves to, if it moves. *)
ShockRegime(s, direction) ==
    IF s.current = Calm \/ s.current = Recovery
    THEN Some(IF direction < 0 THEN Crash ELSE Rally) ELSE None

(* Lines 437-465: the shock event. *)
Shock ==
    /\ UNCHANGED <<warnings, listener, pause_regime>>
    /\ pc = "shock"
    /\ pc' = "gbm"
    /\ \E fires \in ShockDraws :
          IF fires
          THEN \E pct \in {cfg.shock_min_pct, cfg.shock_max_pct}, direction \in {1, -1} :
                  /\ Shocked(mid, pct, direction) <= MaxMid
                  /\ mid' = Shocked(mid, pct, direction)
                  /\ LET next == ShockRegime(state, direction)
                     IN  IF next.some
                         THEN /\ \E d \in DurationDraws(next.v) :
                                    state' = TransitionTo(state, next.v, d)
                              /\ out' = out \o <<Event("shock", mid'),
                                                 Event("shock triggered regime", 0)>>
                         ELSE /\ state' = state
                              /\ out' = Append(out, Event("shock", mid'))
          ELSE UNCHANGED <<mid, state, out>>
    /\ UNCHANGED <<cfg, env, running, forced_event_fired, runtime, next_id,
                   active_orders, current_time, last_printed_regime, stats,
                   time_since_display, params, tick_orders, tick, queue, received,
                   responses, wire, active2, wire2>>

(* Lines 470-478: mid after the price advance by the factor f[1]/f[2] that *)
(* exp(drift_term + diffusion_term) comes to.                              *)
Advanced(m, f) == Clamp((m * f[1]) \div f[2])

(* Lines 467-478: the parameters of the tick and the GBM price advance. *)
Gbm ==
    /\ UNCHANGED <<warnings, listener, pause_regime>>
    /\ pc = "gbm"
    /\ pc' = "announce"
    /\ params' = state.current
    /\ \E f \in env.gbm_factors :
          /\ Advanced(mid, f) <= MaxMid
          /\ mid' = Advanced(mid, f)
    /\ UNCHANGED <<cfg, env, running, state, forced_event_fired, runtime, next_id,
                   active_orders, current_time, last_printed_regime, stats,
                   time_since_display, tick_orders, tick, queue, received,
                   responses, wire, out, active2, wire2>>

(* Mutant: the line is printed but last_printed_regime is not updated. *)
AnnounceForgets ==
    /\ UNCHANGED <<warnings, listener, pause_regime>>
    /\ pc = "announce"
    /\ pc' = "limits"
    /\ IF state.current # last_printed_regime
       THEN /\ out' = Append(out, Event("regime", 0))
            /\ last_printed_regime' = last_printed_regime
       ELSE UNCHANGED <<out, last_printed_regime>>
    /\ UNCHANGED <<cfg, env, running, state, forced_event_fired, runtime, mid, next_id,
                   active_orders, current_time, stats,
                   time_since_display, params, tick_orders, tick, queue, received,
                   responses, wire, active2, wire2>>

(* Lines 481-488: the regime-change line. *)
Announce ==
    /\ UNCHANGED <<warnings, listener, pause_regime>>
    /\ pc = "announce"
    /\ pc' = "limits"
    /\ IF state.current # last_printed_regime
       THEN /\ out' = Append(out, Event("regime", 0))
            /\ last_printed_regime' = state.current
       ELSE UNCHANGED <<out, last_printed_regime>>
    /\ UNCHANGED <<cfg, env, running, state, forced_event_fired, runtime, mid, next_id,
                   active_orders, current_time, stats,
                   time_since_display, params, tick_orders, tick, queue, received,
                   responses, wire, active2, wire2>>

(* The Poisson rate of lines 493, 529 and 588. *)
Lambda(rate) == rate * runtime.throughput_scale * dt_seconds

(* The largest batch the model still has ids for. *)
IdsLeft == Min(MaxPerTick, MaxOrders - next_id)

(* Lines 491-527: the limit orders of the tick. *)
GenLimits ==
    /\ UNCHANGED <<warnings, listener, pause_regime>>
    /\ pc = "limits"
    /\ pc' = "markets"
    /\ \E num_limits \in PoissonDraws(Lambda(Params(params).limit_rate), IdsLeft) :
          /\ tick_orders' \in LimitBatches(next_id, num_limits)
          /\ next_id' = next_id + num_limits
          /\ stats' = [stats EXCEPT !.limits_generated = @ + num_limits]
          /\ tick' = [tick EXCEPT !.num_limits = num_limits]
    /\ UNCHANGED <<cfg, env, running, state, forced_event_fired, runtime, mid,
                   active_orders, current_time, last_printed_regime,
                   time_since_display, params, queue, received,
                   responses, wire, out, active2, wire2>>

(* Lines 529-560: the market orders of the tick. *)
GenMarkets ==
    /\ UNCHANGED <<warnings, listener, pause_regime>>
    /\ pc = "markets"
    /\ pc' = "shuffle"
    /\ \E num_markets \in PoissonDraws(Lambda(Params(params).market_rate), IdsLeft) :
          /\ \E batch \in MarketBatches(next_id, num_markets) :
                tick_orders' = tick_orders \o batch
          /\ next_id' = next_id + num_markets
          /\ stats' = [stats EXCEPT !.markets_generated = @ + num_markets]
          /\ tick' = [tick EXCEPT !.num_markets = num_markets]
    /\ UNCHANGED <<cfg, env, running, state, forced_event_fired, runtime, mid,
                   active_orders, current_time, last_printed_regime,
                   time_since_display, params, queue, received,
                   responses, wire, out, active2, wire2>>

(* Line 562: tick_orders.shuffle: the batch in any order. *)
Shuffled(batch) == {Permuted(batch, p) : p \in Orderings(1..Len(batch))}

Shuffle ==
    /\ UNCHANGED <<warnings, listener, pause_regime>>
    /\ pc = "shuffle"
    /\ pc' = "send"
    /\ tick_orders' \in Shuffled(tick_orders)
    /\ UNCHANGED <<cfg, env, running, state, forced_event_fired, runtime, mid, next_id,
                   active_orders, current_time, last_printed_regime, stats,
                   time_since_display, params, tick, queue, received,
                   responses, wire, out, active2, wire2>>

(* Lines 565-571: send the batch.  The second run has drawn the same batch. *)
Send ==
    /\ UNCHANGED <<warnings, listener, pause_regime>>
    /\ pc = "send"
    /\ pc' = "expire"
    /\ LET r == SendOrders(active_orders, wire, tick_orders)
       IN  /\ active_orders' = r.active
           /\ wire' = r.wire
    /\ LET r2 == SendOrders(active2, wire2, tick_orders)
       IN  /\ active2' = IF env.twin THEN r2.active ELSE active2
           /\ wire2' = IF env.twin THEN r2.wire ELSE wire2
    /\ stats' = [stats EXCEPT !.messages_sent = @ + Len(tick_orders)]
    /\ UNCHANGED <<cfg, env, running, state, forced_event_fired, runtime, mid, next_id,
                   current_time, last_printed_regime,
                   time_since_display, params, tick_orders, tick, queue, received,
                   responses, out>>

(* HashMap::iter and HashMap::keys: the ids in the order the map yields    *)
(* them, which depends on the map's hasher and differs from run to run.    *)
IterOrders(map) == Orderings(DOMAIN map)

(* Lines 574-585: cancel the expired orders. *)
Expire ==
    /\ UNCHANGED <<warnings, listener, pause_regime>>
    /\ pc = "expire"
    /\ pc' = "cancel"
    /\ \E it \in IterOrders(active_orders), it2 \in IterOrders(active2) :
          LET expired == Expired(active_orders, it, current_time)
              r == SendCancels(active_orders, wire, expired, current_time)
              r2 == SendCancels(active2, wire2,
                                Expired(active2, it2, current_time), current_time)
          IN  /\ active_orders' = r.active
              /\ wire' = r.wire
              /\ active2' = r2.active
              /\ wire2' = r2.wire
              /\ stats' = [stats EXCEPT !.messages_sent = @ + Len(expired),
                                        !.cancels_expired = @ + Len(expired)]
              /\ tick' = [tick EXCEPT !.expired = expired]
    /\ UNCHANGED <<cfg, env, running, state, forced_event_fired, runtime, mid, next_id,
                   current_time, last_printed_regime,
                   time_since_display, params, tick_orders, queue, received,
                   responses, out>>

(* Lines 588-608: the regime-driven cancellations.  The second run makes   *)
(* the same draws (num_cancels and the indices) over its own map.          *)
RegimeCancel ==
    /\ UNCHANGED <<warnings, listener, pause_regime>>
    /\ pc = "cancel"
    /\ pc' = "display"
    /\ \E num_cancels \in PoissonDraws(Lambda(Params(params).cancel_rate), MaxPerTick) :
          LET count == CancelCount(num_cancels, active_orders)
              count2 == CancelCount(num_cancels, active2)
          IN  \E idxs \in SeqsOver(0..(MaxOrders - 1), Max(count, count2)) :
              \E picks \in CancelPicks(DOMAIN active_orders, SubSeq(idxs, 1, count)),
                 picks2 \in CancelPicks(DOMAIN active2, SubSeq(idxs, 1, count2)) :
                 LET r == SendCancels(active_orders, wire, picks, current_time)
                     r2 == SendCancels(active2, wire2, picks2, current_time)
                 IN  /\ active_orders' = r.active
                     /\ wire' = r.wire
                     /\ active2' = r2.active
                     /\ wire2' = r2.wire
                     /\ stats' = [stats EXCEPT !.messages_sent = @ + Len(picks),
                                               !.cancels_regime = @ + Len(picks)]
                     /\ tick' = [tick EXCEPT !.num_cancels = num_cancels,
                                             !.picks = picks]
    /\ UNCHANGED <<cfg, env, running, state, forced_event_fired, runtime, mid, next_id,
                   current_time, last_printed_regime,
                   time_since_display, params, tick_orders, queue, received,
                   responses, out>>

(* Mutant: the summary waits until the accumulator exceeds the interval. *)
DisplayStrict ==
    /\ UNCHANGED <<warnings, listener, pause_regime>>
    /\ pc = "display"
    /\ pc' = "transition"
    /\ IF time_since_display + dt_seconds > runtime.display_interval
       THEN /\ out' = Append(out, Event("summary", mid))
            /\ stats' = NewTickStats
            /\ time_since_display' = 0
       ELSE /\ time_since_display' = time_since_display + dt_seconds
            /\ UNCHANGED <<out, stats>>
    /\ UNCHANGED <<cfg, env, running, state, forced_event_fired, runtime, mid, next_id,
                   active_orders, current_time, last_printed_regime,
                   params, tick_orders, tick, queue, received,
                   responses, wire, active2, wire2>>

(* Lines 611-623: the periodic summary. *)
Display ==
    /\ UNCHANGED <<warnings, listener, pause_regime>>
    /\ pc = "display"
    /\ pc' = "transition"
    /\ IF time_since_display + dt_seconds >= runtime.display_interval
       THEN /\ out' = Append(out, Event("summary", mid))
            /\ stats' = NewTickStats
            /\ time_since_display' = 0
       ELSE /\ time_since_display' = time_since_display + dt_seconds
            /\ UNCHANGED <<out, stats>>
    /\ UNCHANGED <<cfg, env, running, state, forced_event_fired, runtime, mid, next_id,
                   active_orders, current_time, last_printed_regime,
                   params, tick_orders, tick, queue, received,
                   responses, wire, active2, wire2>>

(* Line 626. *)
Aged(s) == [s EXCEPT !.time_in_regime = @ + dt_seconds]

(* Mutant: a declined roll starts the time in the regime over. *)
TransitionResetsOnDecline ==
    /\ UNCHANGED <<warnings, listener, pause_regime>>
    /\ pc = "transition"
    /\ pc' = "advance"
    /\ \E next \in TryTransition(Aged(state), scenario_cfg.allow_transitions) :
          IF next # state.current
          THEN \E d \in DurationDraws(next) : state' = TransitionTo(Aged(state), next, d)
          ELSE state' = [Aged(state) EXCEPT !.time_in_regime =
                            IF @ >= state.regime_duration THEN 0 ELSE @]
    /\ UNCHANGED <<cfg, env, running, forced_event_fired, runtime, mid, next_id,
                   active_orders, current_time, last_printed_regime, stats,
                   time_since_display, params, tick_orders, tick, queue, received,
                   responses, wire, out, active2, wire2>>

(* Lines 626-630: the regime transition. *)
Transition ==
    /\ UNCHANGED <<warnings, listener, pause_regime>>
    /\ pc = "transition"
    /\ pc' = "advance"
    /\ \E next \in TryTransition(Aged(state), scenario_cfg.allow_transitions) :
          IF next # state.current
          THEN \E d \in DurationDraws(next) : state' = TransitionTo(Aged(state), next, d)
          ELSE state' = Aged(state)
    /\ UNCHANGED <<cfg, env, running, forced_event_fired, runtime, mid, next_id,
                   active_orders, current_time, last_printed_regime, stats,
                   time_since_display, params, tick_orders, tick, queue, received,
                   responses, wire, out, active2, wire2>>

(* Lines 632-633: the clock advances and the iteration ends; the tick's    *)
(* locals go out of scope.                                                 *)
Advance ==
    /\ UNCHANGED <<warnings, listener>>
    /\ pause_regime' = None
    /\ pc = "advance"
    /\ pc' = "loop"
    /\ current_time' = current_time + dt_seconds
    /\ tick_orders' = <<>>
    /\ tick' = NewTick(active_orders)
    /\ UNCHANGED <<cfg, env, running, state, forced_event_fired, runtime, mid, next_id,
                   active_orders, last_printed_regime, stats,
                   time_since_display, params, queue, received,
                   responses, wire, out, active2, wire2>>

(* Lines 636-637: the shutdown line; run() returns. *)
Shutdown ==
    /\ UNCHANGED <<warnings, listener, pause_regime>>
    /\ pc = "shutdown"
    /\ pc' = "done"
    /\ out' = Append(out, Event("shutting down", 0))
    /\ UNCHANGED <<cfg, env, running, state, forced_event_fired, runtime, mid, next_id,
                   active_orders, current_time, last_printed_regime, stats,
                   time_since_display, params, tick_orders, tick, queue, received,
                   responses, wire, active2, wire2>>

(* Lines 306-308: the Ctrl-C handler. *)
CtrlC ==
    /\ UNCHANGED <<warnings, listener, pause_regime>>
    /\ running
    /\ pc # "done"
    /\ running' = FALSE
    /\ UNCHANGED <<cfg, env, pc, state, forced_event_fired, runtime, mid, next_id,
                   active_orders, current_time, last_printed_regime, stats,
                   time_since_display, params, tick_orders, tick, queue, received,
                   responses, wire, out, active2, wire2>>

(* Mutant: a datagram that does not parse gets no answer. *)
ListenerRecvNoReplyOnError ==
    /\ UNCHANGED <<warnings, listener, pause_regime>>
    /\ cfg.control_enabled
    /\ listener = "recv"
    /\ pc # "done"
    /\ received < env.datagram_limit
    /\ received' = received + 1
    /\ \E datagram \in env.datagrams :
          LET cmd == ParseControlCommand(datagram)
          IN  IF cmd.some
              THEN /\ queue' = Append(queue, cmd.v)
                   /\ responses' = Append(responses, "ok")
              ELSE /\ queue' = queue
                   /\ responses' = responses
    /\ UNCHANGED <<cfg, env, pc, running, state, forced_event_fired, runtime, mid,
                   next_id, active_orders, current_time, last_printed_regime, stats,
                   time_since_display, params, tick_orders, tick,
                   wire, out, active2, wire2>>

(* Lines 149-161: the listener thread receives one datagram, parses it,    *)
(* enqueues the command and answers the sender.                            *)
ListenerRecv ==
    /\ UNCHANGED <<warnings, listener, pause_regime>>
    /\ cfg.control_enabled
    /\ listener = "recv"
    /\ pc # "done"
    /\ received < env.datagram_limit
    /\ received' = received + 1
    /\ \E datagram \in env.datagrams :
          LET cmd == ParseControlCommand(datagram)
          IN  IF cmd.some
              THEN /\ queue' = Append(queue, cmd.v)
                   /\ responses' = Append(responses, "ok")
              ELSE /\ queue' = queue
                   /\ responses' = Append(responses, "usage")
    /\ UNCHANGED <<cfg, env, pc, running, state, forced_event_fired, runtime, mid,
                   next_id, active_orders, current_time, last_printed_regime, stats,
                   time_since_display, params, tick_orders, tick,
                   wire, out, active2, wire2>>

(* Lines 162-164: recv_from returns WouldBlock or TimedOut after the 500 ms *)
(* read timeout; the arm is empty.                                         *)
ListenerTimeout ==
    /\ listener = "recv"
    /\ pc # "done"
    /\ listener' = "timeout"
    /\ UNCHANGED <<cfg, env, pc, running, state, forced_event_fired, runtime, mid,
                   next_id, active_orders, current_time, last_printed_regime, stats,
                   time_since_display, params, tick_orders, tick, queue, received,
                   responses, wire, out, active2, wire2, warnings, pause_regime>>

(* Lines 148-149: after the empty arm the loop calls recv_from again. *)
ListenerLoop ==
    /\ listener = "timeout"
    /\ pc # "done"
    /\ listener' = "recv"
    /\ UNCHANGED <<cfg, env, pc, running, state, forced_event_fired, runtime, mid,
                   next_id, active_orders, current_time, last_printed_regime, stats,
                   time_since_display, params, tick_orders, tick, queue, received,
                   responses, wire, out, active2, wire2, warnings, pause_regime>>

(* Line 165: any other receive error breaks the loop and the thread ends. *)
ListenerError ==
    /\ listener = "recv"
    /\ pc # "done"
    /\ listener' = "exited"
    /\ UNCHANGED <<cfg, env, pc, running, state, forced_event_fired, runtime, mid,
                   next_id, active_orders, current_time, last_printed_regime, stats,
                   time_since_display, params, tick_orders, tick, queue, received,
                   responses, wire, out, active2, wire2, warnings, pause_regime>>

(* One unpaused tick, step by step. *)
TickStep ==
    \/ ForcedEvent \/ Shock \/ Gbm \/ Announce \/ GenLimits \/ GenMarkets
    \/ Shuffle \/ Send \/ Expire \/ RegimeCancel \/ Display \/ Transition \/ Advance

Engine == LoopCheck \/ Drain \/ PauseCheck \/ TickStep \/ Shutdown

Next == Engine \/ CtrlC \/ ListenerRecv

(* The listener thread with its receive timeouts and errors. *)
Listener == ListenerRecv \/ ListenerTimeout \/ ListenerLoop \/ ListenerError

NextListener == Engine \/ CtrlC \/ Listener

-----------------------------------------------------------------------------
(* The runs checked.                                                       *)

(* A configuration AppConfig::resolve can return (config.rs, lines 393-416): *)
(* scenario normal, tick_interval 1 s, tick_size 0.01, initial price 0.04, *)
(* TTLs of 1 to 2 s, shocks of 50 % to 150 % switched off, a summary every *)
(* 2 s, throughput 1x, the control API on, a config file given.            *)
BaseCfg ==
    [scenario |-> "normal", initial_price |-> 4, tick_interval |-> 1, tick_size |-> 1,
     ttl_min |-> 1, ttl_max |-> 2, shock_prob |-> 0, shock_min_pct |-> 50,
     shock_max_pct |-> 150, display_interval |-> 2, throughput_scale |-> 1,
     control_enabled |-> TRUE, config_path |-> TRUE]

(* The environment of a run that generates orders: a flat price path, buy  *)
(* orders at the half-spread, and a client that pauses, resumes and sets   *)
(* the rate.                                                               *)
BaseEnv ==
    [horizon |-> MaxTime, gbm_factors |-> {<<1, 1>>}, sides |-> {"BUY"},
     exp_draws |-> {0}, size_draws |-> {1},
     datagrams |-> {<<"pause">>, <<"resume">>, <<"rate", "0">>, <<"Rate", "1">>},
     reloads |-> {[ok |-> FALSE, why |-> "read failed", v |-> <<>>]},
     twin |-> FALSE, datagram_limit |-> MaxDatagrams]

Spec == Init({BaseCfg}, {BaseEnv}) /\ [][Next]_vars

(* A run that receives no datagram. *)
NextNoControl == Engine \/ CtrlC

(* Two runs with the same seed and configuration and no control input: the *)
(* second makes every draw the first makes; its HashMap has its own hasher *)
(* keys (std's RandomState), so its own iteration order.                   *)
TwinEnv == [BaseEnv EXCEPT !.twin = TRUE, !.datagrams = {}]

SpecTwin == Init({BaseCfg}, {TwinEnv}) /\ [][NextNoControl]_vars

(* The volatile scenario with throughput 0x and a shock in every other     *)
(* tick on average; the client sends regime commands, two of them          *)
(* malformed.                                                              *)
VolatileCfg ==
    [BaseCfg EXCEPT !.scenario = "volatile", !.shock_prob = 50, !.throughput_scale = 0]

VolatileEnv ==
    [BaseEnv EXCEPT !.horizon = MaxLongTime,
                    !.datagrams = {<<"REGIME", "Crash">>, <<"regime", "volatile">>,
                                   <<"regime", "bull">>, <<"regime">>}]

SpecVolatile == Init({VolatileCfg}, {VolatileEnv}) /\ [][Next]_vars

(* Runs that follow the price: the initial price is 0.04 or 0.00 (any f64  *)
(* passes --initial-price), shocks are on, throughput is 0x, each price    *)
(* advance halves, keeps or doubles mid, and the client asks for `stats`   *)
(* and pauses.                                                             *)
PriceCfgs ==
    {[BaseCfg EXCEPT !.initial_price = p, !.shock_prob = 50, !.throughput_scale = 0] :
        p \in {0, 4}}

PriceEnv ==
    [BaseEnv EXCEPT !.gbm_factors = {<<1, 2>>, <<1, 1>>, <<2, 1>>},
                    !.datagrams = {<<"stats">>, <<"pause">>}]

SpecPrice == Init(PriceCfgs, {PriceEnv}) /\ [][Next]_vars

(* Runs whose client sets the rate to 0 and forces the crash regime, whose *)
(* duration can run out within the horizon.                                *)
ZeroEnv == [BaseEnv EXCEPT !.datagrams = {<<"rate", "0">>, <<"REGIME", "Crash">>}]

SpecZero == Init({BaseCfg}, {ZeroEnv}) /\ [][Next]_vars

(* Runs whose client sends every kind of bad command: values out of range, *)
(* a malformed and a missing argument, an unknown verb, an unknown regime  *)
(* name, an empty datagram; and `reload`, which finds an unreadable file,  *)
(* a file with throughput 2x, display 1 s, no shocks, or a file with       *)
(* throughput -1x, display 0 s, shocks 150 % (toml::from_str checks types, *)
(* not ranges).  The run starts at 0x.                                     *)
ControlCfg == [BaseCfg EXCEPT !.throughput_scale = 0]

ControlEnv ==
    [BaseEnv EXCEPT
        !.datagrams = {<<"rate", "-1">>, <<"display", "0">>, <<"display", "1">>,
                       <<"rate", "x">>, <<"rate">>, <<"frobnicate">>,
                       <<"regime", "bull">>, <<>>, <<"reload">>},
        !.reloads = {[ok |-> FALSE, why |-> "read failed", v |-> <<>>],
                     [ok |-> TRUE, why |-> "", v |-> <<2, 1, 0>>],
                     [ok |-> TRUE, why |-> "", v |-> <<-1, 0, 150>>]}]

SpecControl == Init({ControlCfg}, {ControlEnv}) /\ [][Next]_vars

(* Runs started with and without a configuration file, at 0x, whose client  *)
(* pauses and reloads: the file is unreadable, does not parse, or holds     *)
(* throughput 1x, display 1 s, shocks 100 %.                                *)
ReloadCfgs ==
    {[ControlCfg EXCEPT !.config_path = p, !.shock_min_pct = 100, !.shock_max_pct = 100]
        : p \in BOOLEAN}

ReloadEnv ==
    [BaseEnv EXCEPT
        !.datagrams = {<<"pause">>, <<"reload">>},
        !.reloads = {[ok |-> FALSE, why |-> "read failed", v |-> <<>>],
                     [ok |-> FALSE, why |-> "parse failed", v |-> <<>>],
                     [ok |-> TRUE, why |-> "", v |-> <<1, 1, 100>>]}]

SpecReload == Init(ReloadCfgs, {ReloadEnv}) /\ [][Next]_vars

(* Runs of every scenario with no control input, long enough for the       *)
(* forced events and for a chain of Markov steps, at 0x, with a shock of    *)
(* 100 % in every other tick on average.                                   *)
EdgeCfgs ==
    {[BaseCfg EXCEPT !.scenario = s, !.throughput_scale = 0, !.shock_prob = 50,
                     !.shock_min_pct = 100, !.shock_max_pct = 100] : s \in Scenarios}

EdgeEnv == [BaseEnv EXCEPT !.horizon = MaxLongTime, !.datagrams = {}]

SpecEdges == Init(EdgeCfgs, {EdgeEnv}) /\ [][NextNoControl]_vars

(* Runs of one tick at 0x with a shock of 100 % half of the time, whose     *)
(* client sends three datagrams out of pause, resume, a regime, a rate and  *)
(* a display interval; the engine thread is always scheduled again.         *)
PauseCfg ==
    [BaseCfg EXCEPT !.throughput_scale = 0, !.shock_prob = 50,
                    !.shock_min_pct = 100, !.shock_max_pct = 100]

PauseEnv ==
    [BaseEnv EXCEPT
        !.horizon = MaxPauseTime,
        !.datagrams = {<<"pause">>, <<"resume">>, <<"regime", "recovery">>,
                       <<"rate", "1">>, <<"display", "1">>},
        !.datagram_limit = MaxPauseDatagrams]

SpecPause == Init({PauseCfg}, {PauseEnv}) /\ [][Next]_vars /\ WF_vars(Engine)

(* Runs that are shut down: the client pauses, the listener times out, and *)
(* the engine thread is always scheduled again (its sleep of one tick      *)
(* interval ends).                                                         *)
ShutdownEnv == [BaseEnv EXCEPT !.datagrams = {<<"pause">>}]

SpecShutdown ==
    Init({BaseCfg}, {ShutdownEnv}) /\ [][NextListener]_vars /\ WF_vars(Engine)

(* Runs of every scenario, long enough for the forced events at 8 s and    *)
(* 10 s, at 0x; the client pauses and resumes.                             *)
ForcedCfgs == {[BaseCfg EXCEPT !.scenario = s, !.throughput_scale = 0] : s \in Scenarios}

ForcedEnv ==
    [BaseEnv EXCEPT !.horizon = MaxLongTime, !.datagrams = {<<"pause">>, <<"resume">>}]

SpecForced == Init(ForcedCfgs, {ForcedEnv}) /\ [][Next]_vars

(* Runs that look at limit prices: the initial price is 0.02 or 0.04, both *)
(* at least tick_size, orders come on both sides, and the exponential      *)
(* offset draw is 0 or 0.02.  No datagram arrives.                         *)
LimitCfgs == {[BaseCfg EXCEPT !.initial_price = p] : p \in {2, 4}}

LimitEnv ==
    [BaseEnv EXCEPT !.sides = {"BUY", "SELL"}, !.exp_draws = {0, 2}, !.datagrams = {}]

SpecLimit == Init(LimitCfgs, {LimitEnv}) /\ [][NextNoControl]_vars

(* The flash-crash scenario at 0x with no datagram, followed for 9 s after *)
(* the forced event at 8 s.                                                *)
FlashCfg == [BaseCfg EXCEPT !.scenario = "flash-crash", !.throughput_scale = 0]

FlashEnv == [BaseEnv EXCEPT !.horizon = MaxFlashTime, !.datagrams = {}]

SpecFlash == Init({FlashCfg}, {FlashEnv}) /\ [][NextNoControl]_vars

(* The flash-crash scenario at 0x with a shock of 100 % in every other     *)
(* tick on average, up to the tick of the forced event at 8 s; the client  *)
(* sends regime commands.  Control commands, the forced event, shocks and Markov rolls  *)
(* all change the regime in these runs.                                    *)
RegimeCfg ==
    [BaseCfg EXCEPT !.scenario = "flash-crash", !.throughput_scale = 0, !.shock_prob = 50,
                    !.shock_min_pct = 100, !.shock_max_pct = 100]

RegimeEnv ==
    [BaseEnv EXCEPT !.horizon = MaxRegimeTime,
                    !.datagrams = {<<"regime", "calm">>, <<"REGIME", "Crash">>}]

SpecRegime == Init({RegimeCfg}, {RegimeEnv}) /\ [][Next]_vars

-----------------------------------------------------------------------------
(* Properties.                                                             *)

(* The positions of the order messages and of the cancel messages of w. *)
OrderAt(w) == {i \in 1..Len(w) : w[i].msg = "ORDER"}
CancelAt(w) == {i \in 1..Len(w) : w[i].msg = "CANCEL"}

(* The order messages of w, in the order they were sent. *)
OrderMsgs(w) == SelectSeq(w, LAMBDA m : m.msg = "ORDER")

(* The tick's generation is over and its cancellations are done. *)
TickSettled == pc \in {"display", "transition", "advance"}

(* C1: every cancel message with id X comes after an order message with id *)
(* X of type LIMIT, and no id has two cancel messages, whether the cancels *)
(* come from TTL expiry or from the regime-driven cancellations.           *)
C1_CancelFollowsLimitOnce ==
    \A i \in CancelAt(wire) :
        /\ \E j \in OrderAt(wire) :
              j < i /\ wire[j].id = wire[i].id /\ wire[j].type = "LIMIT"
        /\ \A k \in CancelAt(wire) : k # i => wire[k].id # wire[i].id

(* One tick has cancelled an order by expiry and another by the regime     *)
(* draw.                                                                   *)
C1_Witness ==
    /\ TickSettled
    /\ tick.expired # <<>>
    /\ tick.picks # <<>>
    /\ Cardinality(CancelAt(wire)) >= 2

(* C2 as stated: the k-th order message on the wire carries id k (counting *)
(* from 0).                                                                *)
C2_WireIdsInOrder ==
    \A k \in 1..Len(OrderMsgs(wire)) : OrderMsgs(wire)[k].id = k - 1

(* C2, amended: ids are handed out from 0 without gaps, so the order       *)
(* messages sent carry every id below their count exactly once and, once   *)
(* the tick's batch is sent, every id below next_id; an id of an earlier   *)
(* tick is smaller than an id of a later tick, and within a tick the       *)
(* shuffle alone decides the order.                                        *)
C2_IdsContiguousPerTick ==
    LET ow == OrderMsgs(wire)
    IN  /\ \A i, j \in 1..Len(ow) : i # j => ow[i].id # ow[j].id
        /\ {ow[i].id : i \in 1..Len(ow)} = 0..(Len(ow) - 1)
        /\ \A i, j \in 1..Len(ow) : i < j =>
              /\ ow[i].time <= ow[j].time
              /\ ow[i].time < ow[j].time => ow[i].id < ow[j].id
        /\ pc \notin {"markets", "shuffle", "send"} => Len(ow) = next_id
        /\ pc \in {"markets", "shuffle", "send"} => Len(ow) + Len(tick_orders) = next_id

(* The shuffle has put id 1 on the wire before id 0. *)
C2_Witness ==
    /\ Len(OrderMsgs(wire)) >= 2
    /\ OrderMsgs(wire)[1].id = 1
    /\ OrderMsgs(wire)[2].id = 0

(* C3: after an unpaused tick the active index holds what it held before   *)
(* the tick, plus the tick's limit orders, minus its expiry cancels, minus *)
(* its regime-driven cancels.                                              *)
C3_ActiveCount ==
    TickSettled =>
        Cardinality(DOMAIN active_orders) =
            tick.active_before + tick.num_limits - Len(tick.expired) - Len(tick.picks)

(* A tick that started with an active order, generated a limit order,      *)
(* expired one and cancelled one by the regime draw.                       *)
C3_Witness ==
    /\ TickSettled
    /\ tick.active_before > 0
    /\ tick.num_limits > 0
    /\ tick.expired # <<>>
    /\ tick.picks # <<>>

(* C4: a market order has TTL 0, is never in the active index, has exactly *)
(* one message on the wire (its order message) and no cancel message.      *)
C4_MarketOrders ==
    /\ \A i \in 1..Len(tick_orders) :
          tick_orders[i].order_type = "MARKET" => tick_orders[i].ttl = 0
    /\ \A id \in DOMAIN active_orders : active_orders[id].order_type = "LIMIT"
    /\ \A i \in OrderAt(wire) :
          wire[i].type = "MARKET" =>
              /\ wire[i].id \notin DOMAIN active_orders
              /\ \A k \in 1..Len(wire) : k # i => wire[k].id # wire[i].id

(* A market order went out in an earlier tick, and regime-driven cancels   *)
(* have been drawn since while it was the older of the two orders.         *)
C4_Witness ==
    /\ TickSettled
    /\ current_time >= 1
    /\ tick.picks # <<>>
    /\ \E i \in OrderAt(wire) : wire[i].type = "MARKET" /\ wire[i].time < current_time

(* C5: two runs with the same seed and configuration and no control        *)
(* commands put the same messages on the wire in the same order, the       *)
(* TTL-expiry cancels of a tick and the ids of the regime-driven cancels   *)
(* included.                                                               *)
C5_SameWire == wire2 = wire

(* C6 as stated: in the volatile scenario the regime is VOLATILE in every  *)
(* state, whatever ticks, shocks and control commands have happened.       *)
C6_AlwaysVolatile == cfg.scenario = "volatile" => state.current = Volatile

(* The drain step is applying a `regime <name>` command that names a       *)
(* regime other than VOLATILE.                                             *)
DrainsOtherRegime ==
    /\ pc = "drain"
    /\ queue # <<>>
    /\ Head(queue).kind = "Regime"
    /\ Head(queue).r # Volatile

(* C6, amended: in the volatile scenario the regime is VOLATILE at         *)
(* start-up, and the only step that takes it away from VOLATILE is the     *)
(* drain step applying a `regime <name>` command that names another        *)
(* regime; no tick, shock or other command does.                           *)
C6_LeavesVolatileOnlyByCommand ==
    /\ cfg.scenario = "volatile" => state.current = Volatile
    /\ [][(cfg.scenario = "volatile" /\ state.current = Volatile
               /\ state'.current # Volatile) => DrainsOtherRegime]_vars

(* The volatile scenario after a shock, a `regime volatile` command and    *)
(* a transition step at which the regime's duration had run out.           *)
C6_Witness ==
    /\ cfg.scenario = "volatile"
    /\ pc = "advance"
    /\ state.current = Volatile
    /\ state.time_in_regime >= state.regime_duration
    /\ \E i \in 1..Len(out) : out[i].tag = "shock"
    /\ current_time > state.time_in_regime

(* C7: mid is at least tick_size in every state of the engine, from        *)
(* start-up on, and in every line that reports it (shock, summary, stats). *)
C7_MidAtLeastTick ==
    /\ mid >= cfg.tick_size
    /\ \A i \in 1..Len(out) :
          out[i].tag \in {"shock", "summary", "control stats"} =>
              out[i].mid >= cfg.tick_size

(* What a paused iteration must leave alone. *)
frozen == <<wire, current_time, mid, next_id, active_orders, stats>>

(* C8: while the paused flag is set the engine is between the loop         *)
(* condition and the pause check, and no step sends a message or changes   *)
(* current_time, mid, the next id, the active index or the counters; the   *)
(* clock changes only at the end of an unpaused iteration, by exactly one  *)
(* tick interval, so after `resume` it goes on from where it stood.        *)
C8_PauseFreezes ==
    /\ [](runtime.paused => pc \in {"loop", "drain", "pause", "shutdown", "done"})
    /\ [][runtime.paused => UNCHANGED frozen]_vars
    /\ [][current_time' # current_time =>
             /\ ~runtime.paused
             /\ pc = "advance"
             /\ current_time' = current_time + dt_seconds]_vars
    /\ [][(pc = "advance" /\ pc' # pc) => current_time' = current_time + dt_seconds]_vars

(* A whole iteration has passed with the flag set, while an active order's *)
(* TTL had already run out.                                                *)
C8_Witness ==
    /\ runtime.paused
    /\ pc = "loop"
    /\ out = <<>>
    /\ current_time >= 1
    /\ \E id \in DOMAIN active_orders : IsExpired(active_orders[id], current_time)

(* The transition step of lines 626-630 from s to t: time_in_regime grows  *)
(* by one tick, and when the scenario allows transitions and the duration  *)
(* has run out the regime may move along a non-zero entry of the matrix.   *)
MarkovStep(s, t) ==
    \/ t = Aged(s)
    \/ /\ scenario_cfg.allow_transitions
       /\ Aged(s).time_in_regime >= s.regime_duration
       /\ t.current # s.current
       /\ TRANSITION_PROB[s.current][Index(t.current)] > 0
       /\ t.previous = s.current
       /\ t.time_in_regime = 0

(* C9: with throughput_scale = 0 and the engine not paused the loop goes   *)
(* on: every step of the tick can be taken, the expiry step leaves no      *)
(* active order whose TTL has run out, the transition step ages the regime *)
(* and rolls when due, and the iteration ends with current_time one tick   *)
(* interval later.                                                         *)
C9_ScaleZeroKeepsTicking ==
    /\ []((runtime.throughput_scale = 0 /\ ~runtime.paused /\ pc \notin {"loop", "done"})
            => ENABLED Engine)
    /\ []((runtime.throughput_scale = 0 /\ pc \in {"cancel", "display", "transition", "advance"})
            => \A id \in DOMAIN active_orders : ~IsExpired(active_orders[id], current_time))
    /\ [][(runtime.throughput_scale = 0 /\ pc = "transition" /\ pc' # pc)
            => MarkovStep(state, state')]_vars
    /\ [][(runtime.throughput_scale = 0 /\ pc = "advance" /\ pc' # pc)
            => current_time' = current_time + dt_seconds]_vars

(* A tick at rate 0 that cancelled an expired order and then left the      *)
(* crash regime by a Markov roll.                                          *)
C9_Witness ==
    /\ runtime.throughput_scale = 0
    /\ pc = "advance"
    /\ tick.expired # <<>>
    /\ state.previous = Crash
    /\ state.current # Crash
    /\ state.time_in_regime = 0

(* C10: while the throughput scale is 0 the tick draws no limit order, no  *)
(* market order and no regime-driven cancel, no order message goes out and *)
(* the active index never grows.                                           *)
C10_RateZeroGeneratesNothing ==
    /\ [](runtime.throughput_scale = 0 =>
            /\ \A r \in Regimes :
                  /\ PoissonDraws(Lambda(Params(r).limit_rate), MaxPerTick) = {0}
                  /\ PoissonDraws(Lambda(Params(r).market_rate), MaxPerTick) = {0}
                  /\ PoissonDraws(Lambda(Params(r).cancel_rate), MaxPerTick) = {0}
            /\ tick.num_limits = 0
            /\ tick.num_markets = 0
            /\ tick.num_cancels = 0
            /\ tick.picks = <<>>
            /\ tick_orders = <<>>)
    /\ [][runtime.throughput_scale = 0 =>
             /\ Cardinality(DOMAIN active_orders') <= Cardinality(DOMAIN active_orders)
             /\ OrderMsgs(wire') = OrderMsgs(wire)]_vars

(* `rate 0` took effect in a run that started at 1x, and a tick under it   *)
(* has shrunk the active index by an expiry.                               *)
C10_Witness ==
    /\ runtime.throughput_scale = 0
    /\ cfg.throughput_scale = 1
    /\ TickSettled
    /\ tick.active_before > 0
    /\ tick.expired # <<>>
    /\ Cardinality(DOMAIN active_orders) < tick.active_before

(* The step applies command c: the tunables and the regime state become what *)
(* c's arm of lines 352-408 makes of them, and the arm's event line is printed. *)
Applies(c) ==
    \E file \in ReloadOutcomes \cup {[ok |-> FALSE, why |-> "", v |-> <<>>]},
       d \in (IF c.kind = "Regime" THEN DurationDraws(c.r) ELSE {0}) :
       /\ runtime' = ApplyRuntime(c, runtime, file)
       /\ state' = ApplyRegime(c, state, d)
       /\ out' = Append(out, ApplyEvent(c, file))

(* C11: the channel is a FIFO that only the listener appends to and only   *)
(* the drain step pops: every step that changes it either appends one      *)
(* parsed command at the back, leaving tunables, regime and the tick's     *)
(* parameters alone, or is a drain step that removes the oldest command    *)
(* and applies exactly that command; outside the drain step the tunables   *)
(* never change.                                                           *)
C11_AppliedOnceInOrderAtDrain ==
    /\ [][queue' # queue =>
            \/ /\ pc = "drain"
               /\ queue # <<>>
               /\ queue' = Tail(queue)
               /\ Applies(Head(queue))
            \/ /\ \E c \in {ParseControlCommand(d).v :
                              d \in {x \in env.datagrams : ParseControlCommand(x).some}} :
                     queue' = Append(queue, c)
               /\ UNCHANGED <<runtime, state, params, out, pc>>]_vars
    /\ [][pc # "drain" => runtime' = runtime]_vars
    /\ [][(pc = "drain" /\ queue' = queue) => UNCHANGED <<runtime, state, out>>]_vars

(* Two commands, `rate 0` first, arrived while a tick that generated       *)
(* orders at 1x was about to send them.                                    *)
C11_Witness ==
    /\ pc = "send"
    /\ tick_orders # <<>>
    /\ Len(queue) = 2
    /\ Head(queue) = Cmd("Throughput", 0, "")
    /\ queue[2] = Cmd("Pause", 0, "")
    /\ runtime.throughput_scale = 1

(* The newest response. *)
LastResponse(r) == r[Len(r)]

(* C12: the listener has answered every datagram it has received exactly   *)
(* once: each receive adds one response, `ok` together with exactly one    *)
(* command at the back of the channel when the datagram parses, the usage  *)
(* line with the channel untouched when it does not; no other step adds a  *)
(* response.                                                               *)
C12_OneResponsePerDatagram ==
    /\ [](Len(responses) = received)
    /\ [][responses' # responses => received' = received + 1]_vars
    /\ [][received' # received =>
            /\ received' = received + 1
            /\ Len(responses') = Len(responses) + 1
            /\ SubSeq(responses', 1, Len(responses)) = responses
            /\ \E d \in env.datagrams :
                  IF ParseControlCommand(d).some
                  THEN /\ LastResponse(responses') = "ok"
                       /\ queue' = Append(queue, ParseControlCommand(d).v)
                  ELSE /\ LastResponse(responses') = "usage"
                       /\ queue' = queue]_vars

(* A datagram that did not parse and one that did have both been answered. *)
C12_Witness ==
    /\ responses = <<"usage", "ok">>
    /\ Len(queue) = 1
    /\ received = 2

(* The commands lines 361-368 turn away: a negative rate, a display        *)
(* interval that is not positive.                                          *)
OutOfRange(c) ==
    \/ c.kind = "Throughput" /\ c.v < 0
    \/ c.kind = "DisplayInterval" /\ c.v <= 0

UsageCount(r) == Cardinality({i \in 1..Len(r) : r[i] = "usage"})

(* C13: every control-command error yields a usage response and an engine  *)
(* warning: a datagram whose value is out of range is answered with the    *)
(* usage line, and once the drain has emptied the channel the engine has   *)
(* printed as many warnings as the listener has sent usage lines.          *)
C13_ErrorsAnswerUsageAndWarn ==
    /\ [][\A d \in env.datagrams :
            LET c == ParseControlCommand(d)
            IN  (c.some /\ OutOfRange(c.v) /\ queue' = Append(queue, c.v))
                   => LastResponse(responses') = "usage"]_vars
    /\ []((pc = "pause" /\ queue = <<>>) => warnings = UsageCount(responses))

(* C14: the engine step that drains a command with an out-of-range value   *)
(* prints exactly one line, the warning, changes neither the tunables nor  *)
(* the regime state, removes that command only and stays in the drain      *)
(* loop, where the next pass is always possible.                           *)
C14_InvalidValueOnlyWarns ==
    /\ [][(/\ pc = "drain"
           /\ queue # <<>>
           /\ OutOfRange(Head(queue))
           /\ (Len(queue') < Len(queue) \/ out' # out \/ pc' # pc))
          => /\ out' = Append(out, Event("invalid control value", 0))
             /\ warnings' = warnings + 1
             /\ UNCHANGED <<runtime, state>>
             /\ queue' = Tail(queue)
             /\ pc' = "drain"]_vars
    /\ [](pc = "drain" => ENABLED Drain)

(* A drain printed the warning, went on to apply the next command of the   *)
(* channel, and the tick ran to its end.                                   *)
C14_Witness ==
    /\ pc = "advance"
    /\ Len(out) >= 2
    /\ out[1].tag = "invalid control value"
    /\ out[2].tag = "control display_interval"
    /\ runtime.display_interval = 1

(* C15: the tunables stay in their ranges: throughput scale >= 0, display   *)
(* interval > 0, shock probability between 0 and 1 (0 to 100 percent).     *)
C15_TunablesInRange ==
    /\ runtime.throughput_scale >= 0
    /\ runtime.display_interval > 0
    /\ runtime.shock_prob >= 0
    /\ runtime.shock_prob <= 100

ShutdownLines == Cardinality({i \in 1..Len(out) : out[i].tag = "shutting down"})

(* C16: once running is false the engine goes through the remaining steps  *)
(* of its iteration one by one, the loop condition then leads only to the  *)
(* shutdown line, which is printed once, right before run() returns, and   *)
(* the engine does return, paused or not.                                  *)
C16_ShutdownAfterCurrentTick ==
    /\ [][(~running /\ pc = "loop" /\ pc' # pc) => pc' = "shutdown"]_vars
    /\ [][pc' = "shutdown" => (pc = "shutdown" \/ (pc = "loop" /\ ~running))]_vars
    /\ [][(pc' = "done" /\ pc # "done") => (pc = "shutdown" /\ ShutdownLines = 0)]_vars
    /\ [](ShutdownLines = (IF pc = "done" THEN 1 ELSE 0))
    /\ []((~running /\ pc # "done") => ENABLED Engine)
    /\ (~running ~> pc = "done")

(* run() has returned from a paused engine that had sent orders. *)
C16_Witness ==
    /\ pc = "done"
    /\ runtime.paused
    /\ wire # <<>>
    /\ out = <<Event("shutting down", 0)>>

(* C17: a listener that has timed out while running is false leaves its    *)
(* receive loop: it does not call recv_from again.                         *)
C17_TimeoutObservesShutdown ==
    [][(listener = "timeout" /\ ~running) => listener' # "recv"]_vars

ForcedLines == Cardinality({i \in 1..Len(out) : out[i].tag = "forced event"})

(* The scenario has a forced event and its time has come. *)
ForcedDue ==
    /\ cfg.scenario \in {"crash", "flash-crash", "rally"}
    /\ current_time >= scenario_cfg.forced_event_time

(* C18: the forced-event step of an unpaused iteration fires exactly when  *)
(* the scenario is crash, flash-crash or rally, the event has not fired    *)
(* and current_time has reached forced_event_time; firing prints one line  *)
(* and puts the run in the scenario's forced regime, which is the regime   *)
(* whose parameters the rest of that tick uses; a fired event never fires  *)
(* again, and in normal and volatile the event never fires.                *)
C18_ForcedEventOnce ==
    /\ [](cfg.scenario \in {"normal", "volatile"} =>
            (~forced_event_fired /\ ForcedLines = 0))
    /\ [](forced_event_fired => ForcedDue)
    /\ [][forced_event_fired => forced_event_fired']_vars
    /\ [][(pc = "forced" /\ pc' # pc) =>
            /\ forced_event_fired' = (forced_event_fired \/ ForcedDue)
            /\ IF ~forced_event_fired /\ ForcedDue
               THEN /\ out' = Append(out, Event("forced event", 0))
                    /\ state'.current = scenario_cfg.forced_regime
                    /\ state'.time_in_regime = 0
               ELSE UNCHANGED <<out, state>>]_vars
    /\ [][pc # "forced" => UNCHANGED forced_event_fired]_vars
    /\ []((ForcedLines > 0 /\ pc \in {"announce", "limits", "markets", "shuffle", "send",
                                       "expire", "cancel", "display", "transition"})
            => (ForcedLines = 1 /\ params = scenario_cfg.forced_regime))

(* The flash crash fired in the iteration that applied `resume`, at the    *)
(* time the run had been paused at, and the tick went on in CRASH.         *)
C18_Witness ==
    /\ cfg.scenario = "flash-crash"
    /\ pc = "transition"
    /\ Len(out) >= 2
    /\ out[1].tag = "control resume"
    /\ out[2].tag = "forced event"
    /\ params = Crash
    /\ current_time = 8

(* What a step has put on the wire. *)
Sent == SubSeq(wire', Len(wire) + 1, Len(wire'))

(* The ids of the batch of the tick in progress. *)
BatchIds == {tick_orders[i].id : i \in 1..Len(tick_orders)}

(* C19: the wire only grows at its end, and only in three steps that       *)
(* follow one another in every tick: the send step appends the order       *)
(* messages of the batch in the batch's (shuffled) order, the expiry step  *)
(* then appends the cancels of the expired ids, the regime step then       *)
(* appends the cancels of the picked ids; so the cancel of an order of the *)
(* same tick's batch comes after that order's message.                     *)
C19_OrdersThenExpiryThenRegimeCancels ==
    /\ [][wire' # wire =>
            /\ Len(wire') > Len(wire)
            /\ SubSeq(wire', 1, Len(wire)) = wire
            /\ \/ /\ pc = "send"
                  /\ Sent = [i \in 1..Len(tick_orders) |-> OrderMsg(tick_orders[i])]
               \/ /\ pc = "expire"
                  /\ Sent = [i \in 1..Len(tick'.expired) |->
                               CancelMsg(tick'.expired[i], current_time)]
               \/ /\ pc = "cancel"
                  /\ Sent = [i \in 1..Len(tick'.picks) |->
                               CancelMsg(tick'.picks[i], current_time)]
                  /\ \A i \in 1..Len(tick'.picks) :
                        tick'.picks[i] \in BatchIds =>
                           \E j \in OrderAt(wire) : wire[j].id = tick'.picks[i]]_vars
    /\ [][(pc = "send" /\ pc' # pc) => pc' = "expire"]_vars
    /\ [][(pc = "expire" /\ pc' # pc) => pc' = "cancel"]_vars
    /\ [][(pc = "cancel" /\ pc' # pc) => pc' = "display"]_vars

(* One tick has sent an order, then the cancel of an expired order, then   *)
(* the regime-driven cancel of the order it had just sent.                 *)
C19_Witness ==
    /\ pc = "display"
    /\ tick_orders # <<>>
    /\ tick.expired # <<>>
    /\ tick.picks # <<>>
    /\ tick.picks[1] \in BatchIds
    /\ Len(wire) >= 3
    /\ wire[Len(wire) - 2].msg = "ORDER"
    /\ wire[Len(wire) - 1] = CancelMsg(tick.expired[1], current_time)
    /\ wire[Len(wire)] = CancelMsg(tick.picks[1], current_time)

(* C20: whenever mid is at least tick_size, every limit order of the batch *)
(* and every limit order message on the wire has a price of at least       *)
(* tick_size, on the buy and on the sell side.                             *)
C20_LimitPriceAtLeastTick ==
    mid >= cfg.tick_size =>
        /\ \A i \in 1..Len(tick_orders) :
              tick_orders[i].order_type = "LIMIT" => tick_orders[i].price >= cfg.tick_size
        /\ \A i \in OrderAt(wire) :
              wire[i].type = "LIMIT" => wire[i].price >= cfg.tick_size

(* The ids of the limit order messages and of the cancel messages of w. *)
LimitIds(w) == {w[i].id : i \in {j \in OrderAt(w) : w[j].type = "LIMIT"}}
CancelIds(w) == {w[i].id : i \in CancelAt(w)}

(* How many cancel messages of w carry the id. *)
CancelsOf(w, id) == Cardinality({i \in CancelAt(w) : w[i].id = id})

(* C21: at the end of every tick the ids of the active index are the ids   *)
(* of the limit orders sent so far without those a cancel was sent for,    *)
(* and every entry is a limit order stored under its own id; an id that    *)
(* enters the index has never been on the wire before, and a step that     *)
(* removes an id from the index sends exactly one cancel for it.           *)
C21_IndexIsSentMinusCancelled ==
    /\ [](pc \in {"display", "transition", "advance", "loop"} =>
            /\ DOMAIN active_orders = LimitIds(wire) \ CancelIds(wire)
            /\ \A id \in DOMAIN active_orders :
                  /\ active_orders[id].order_type = "LIMIT"
                  /\ active_orders[id].id = id)
    /\ [][\A id \in DOMAIN active_orders' \ DOMAIN active_orders :
            /\ \A i \in 1..Len(wire) : wire[i].id # id
            /\ Cardinality({i \in OrderAt(Sent) : Sent[i].id = id}) = 1]_vars
    /\ [][\A id \in DOMAIN active_orders \ DOMAIN active_orders' :
            /\ CancelsOf(Sent, id) = 1
            /\ CancelsOf(wire, id) = 0]_vars

(* A tick has ended that removed an expired order and left another active. *)
C21_Witness ==
    /\ pc = "advance"
    /\ tick.expired # <<>>
    /\ DOMAIN active_orders # {}
    /\ CancelIds(wire) # {}

(* The run is in the crash regime the forced event of flash-crash put it   *)
(* in: time_in_regime has counted every tick since forced_event_time.      *)
InForcedCrash ==
    /\ cfg.scenario = "flash-crash"
    /\ forced_event_fired
    /\ state.current = Crash
    /\ state.time_in_regime = current_time - scenario_cfg.forced_event_time

(* At the transition step: the simulated seconds between the forced event  *)
(* and the end of this tick.                                               *)
SinceForced == current_time + dt_seconds - scenario_cfg.forced_event_time

(* C22 as stated: the transition step that takes the run out of the forced *)
(* crash comes 3 to 7 s after the forced event, and the run is not in the  *)
(* forced crash any later than that.                                       *)
C22_LeavesCrashWithin3To7 ==
    /\ [][(pc = "transition" /\ InForcedCrash /\ state'.current # Crash) =>
             (SinceForced >= 3 /\ SinceForced <= 7)]_vars
    /\ [](InForcedCrash => state.time_in_regime <= 7)

(* C22, amended: the forced crash has a duration of 3 to 7 s, and the run   *)
(* leaves it only in a transition step that comes at least that duration   *)
(* after the forced event (so never before 3 s), by a roll into a regime    *)
(* the crash row gives a non-zero probability; a declined roll keeps the    *)
(* crash, so there is no latest time.                                       *)
C22_LeavesCrashNoEarlierThanDuration ==
    /\ [](InForcedCrash => (state.regime_duration >= 3 /\ state.regime_duration <= 7))
    /\ [][(InForcedCrash /\ state'.current # Crash) =>
             /\ pc = "transition"
             /\ SinceForced >= state.regime_duration
             /\ SinceForced >= 3
             /\ TRANSITION_PROB[Crash][Index(state'.current)] > 0]_vars
    /\ [][(pc = "transition" /\ pc' # pc /\ InForcedCrash
             /\ SinceForced < state.regime_duration) => state' = Aged(state)]_vars

(* The run has left the forced crash by a roll more than 7 s after the     *)
(* forced event.                                                           *)
C22_Witness ==
    /\ cfg.scenario = "flash-crash"
    /\ forced_event_fired
    /\ pc = "advance"
    /\ state.previous = Crash
    /\ state.current # Crash
    /\ state.time_in_regime = 0
    /\ SinceForced > 7

(* t is what transition_to makes of s: time_in_regime 0, a duration drawn  *)
(* for t's regime (or the flash-crash override), s's regime as previous.   *)
IsTransition(s, t) ==
    /\ t.time_in_regime = 0
    /\ t.previous = s.current
    /\ t.regime_duration \in
          DurationDraws(t.current) \cup
             (IF cfg.scenario = "flash-crash" THEN FlashCrashDurations ELSE {})

ShockRegimeLines(o) == Cardinality({i \in 1..Len(o) : o[i].tag = "shock triggered regime"})

(* C23: the regime state changes only in two ways: the transition step     *)
(* adds one tick interval to time_in_regime, or a transition sets it to 0, *)
(* draws a new duration and records the old regime as previous.  The       *)
(* transition step of every unpaused tick does one of the two, and a       *)
(* drained `regime <name>` command (also one that names the current        *)
(* regime), the forced event and a shock that reports a regime change are  *)
(* transitions.                                                            *)
C23_TimeInRegime ==
    /\ [][state' # state =>
            \/ pc = "transition" /\ state' = Aged(state)
            \/ /\ pc \in {"drain", "forced", "shock", "transition"}
               /\ IsTransition(state, state')]_vars
    /\ [][(pc = "transition" /\ pc' # pc) =>
            \/ state' = Aged(state)
            \/ state'.current # state.current /\ IsTransition(state, state')]_vars
    /\ [][(pc = "drain" /\ queue # <<>> /\ Head(queue).kind = "Regime"
              /\ queue' = Tail(queue)) =>
            (IsTransition(state, state') /\ state'.current = Head(queue).r)]_vars
    /\ [][(~forced_event_fired /\ forced_event_fired') =>
            (IsTransition(state, state')
                /\ state'.current = scenario_cfg.forced_regime)]_vars
    /\ [][ShockRegimeLines(out') > ShockRegimeLines(out) =>
            (IsTransition(state, state') /\ state'.current \in {Crash, Rally})]_vars

(* A `regime crash` command was applied to a run already in CRASH for some *)
(* time: the time is back at 0 and previous is CRASH too.                  *)
C23_Witness ==
    /\ pc = "drain"
    /\ out # <<>>
    /\ out[Len(out)].tag = "control regime"
    /\ state.current = Crash
    /\ state.previous = Crash
    /\ state.time_in_regime = 0
    /\ current_time >= 2

(* At the transition step: the scenario allows transitions and the time in *)
(* the regime, this tick's increment included, has reached the duration.   *)
RollDue ==
    /\ scenario_cfg.allow_transitions
    /\ Aged(state).time_in_regime >= state.regime_duration

(* The sum of the current regime's row of the matrix, in thousandths. *)
RowSum == Cumulative(TRANSITION_PROB[state.current], Len(ALL))

(* C24: the transition step can change the regime exactly when the roll is *)
(* due, and can then also decline; a roll below the row's sum selects a    *)
(* regime other than the current one, with a non-zero entry in the row,    *)
(* and a roll at or above it declines; a step that keeps the regime only   *)
(* ages it, leaving regime_duration alone, so that the roll is due again   *)
(* in the next unpaused tick.                                              *)
C24_RollWhenDue ==
    /\ [](pc = "transition" =>
            /\ RollDue <=> ENABLED (Transition /\ state'.current # state.current)
            /\ ENABLED (Transition /\ state' = Aged(state))
            /\ \A roll \in 0..(RowSum - 1) :
                  /\ WalkRow(Aged(state), roll) # state.current
                  /\ TRANSITION_PROB[state.current][Index(WalkRow(Aged(state), roll))] > 0
            /\ \A roll \in RowSum..(RowSum + 1) :
                  WalkRow(Aged(state), roll) = state.current)
    /\ [][(pc = "transition" /\ pc' # pc /\ state'.current = state.current) =>
            state' = Aged(state)]_vars
    /\ [][(pc = "transition" /\ state'.current # state.current) =>
            (RollDue /\ TRANSITION_PROB[state.current][Index(state'.current)] > 0)]_vars
    /\ [][(pc = "transition" /\ pc' # pc /\ RollDue /\ state'.current = state.current) =>
            (state'.time_in_regime >= state'.regime_duration
                /\ state'.regime_duration = state.regime_duration)]_vars

(* The roll of the tick before was declined and this tick rolls again.     *)
C24_Witness ==
    /\ pc = "transition"
    /\ scenario_cfg.allow_transitions
    /\ state.time_in_regime >= state.regime_duration
    /\ state.time_in_regime > 0

(* C25: a shock step that fires (it prints the shock line) multiplies mid   *)
(* by 1 + direction * pct; from CALM or RECOVERY it is also a transition,  *)
(* to CRASH when the direction is down and to RALLY when it is up, and     *)
(* prints the second line; from VOLATILE, CRASH or RALLY it leaves the     *)
(* whole regime state as it is.  A shock step that does not fire changes   *)
(* neither mid nor the regime state.                                       *)
C25_ShockRegimeChange ==
    /\ [][(pc = "shock" /\ out' # out) =>
            \E direction \in {1, -1}, pct \in {cfg.shock_min_pct, cfg.shock_max_pct} :
               /\ mid' = Shocked(mid, pct, direction)
               /\ IF state.current \in {Calm, Recovery}
                  THEN /\ IsTransition(state, state')
                       /\ state'.current = (IF direction < 0 THEN Crash ELSE Rally)
                       /\ out' = out \o <<Event("shock", mid'),
                                          Event("shock triggered regime", 0)>>
                  ELSE /\ state' = state
                       /\ out' = Append(out, Event("shock", mid'))]_vars
    /\ [][(pc = "shock" /\ pc' # pc /\ out' = out) => UNCHANGED <<mid, state>>]_vars

(* An upward shock has taken the run from RECOVERY to RALLY. *)
C25_Witness ==
    /\ pc = "gbm"
    /\ Len(out) >= 2
    /\ out[Len(out)].tag = "shock triggered regime"
    /\ out[Len(out) - 1].mid > cfg.tick_size
    /\ state.previous = Recovery
    /\ state.current = Rally

(* C26: the regime-driven cancellation step with Poisson draw N_C picks    *)
(* min(N_C, |active|) ids of the index as the expiry step left it, all     *)
(* different, each still in the index when it is picked; it sends one      *)
(* cancel for each, in the order picked, and the index loses exactly those *)
(* ids.                                                                    *)
C26_RegimeCancelCount ==
    [][(pc = "cancel" /\ pc' # pc) =>
          LET picks == tick'.picks
              ids == DOMAIN active_orders
          IN  /\ Len(picks) = Min(tick'.num_cancels, Cardinality(ids))
              /\ \A i \in 1..Len(picks) :
                    picks[i] \in ids \ {picks[j] : j \in 1..(i - 1)}
              /\ Sent = [i \in 1..Len(picks) |-> CancelMsg(picks[i], current_time)]
              /\ DOMAIN active_orders' = ids \ {picks[i] : i \in 1..Len(picks)}
              /\ stats'.cancels_regime = stats.cancels_regime + Len(picks)]_vars

(* The draw was 2, and the one order the expiry step had left was          *)
(* cancelled.                                                              *)
C26_Witness ==
    /\ pc = "display"
    /\ tick.num_cancels = 2
    /\ Len(tick.picks) = 1
    /\ tick.expired # <<>>
    /\ active_orders = EmptyMap

(* The active orders whose TTL has run out at the time now. *)
Due(active, now) == {id \in DOMAIN active : IsExpired(active[id], now)}

(* C27: the expiry step cancels exactly the active orders with ttl > 0 and *)
(* current_time - created_at >= ttl, none of them created in this tick, so *)
(* that from the expiry step to the end of the tick no such order is in    *)
(* the index; and in a run that keeps ticking unpaused, an active order    *)
(* whose TTL runs out before the run's last tick leaves the index.         *)
C27_ExpiryClearsDueOrders ==
    /\ [](pc \in {"cancel", "display", "transition", "advance"} =>
            Due(active_orders, current_time) = {})
    /\ [][(pc = "expire" /\ pc' # pc) =>
            /\ {tick'.expired[i] : i \in 1..Len(tick'.expired)}
                  = Due(active_orders, current_time)
            /\ \A id \in Due(active_orders, current_time) :
                  active_orders[id].created_at < current_time
            /\ DOMAIN active_orders' = DOMAIN active_orders \ Due(active_orders, current_time)]_vars
    /\ \A id \in 0..(MaxOrders - 1) :
          [](running /\ ~runtime.paused) =>
             ((/\ id \in DOMAIN active_orders
               /\ active_orders[id].ttl > 0
               /\ active_orders[id].created_at + active_orders[id].ttl < env.horizon)
                 ~> id \notin DOMAIN active_orders)

(* The expiry step has cancelled an order whose TTL had run out and left   *)
(* the order this tick created.                                            *)
C27_Witness ==
    /\ pc = "cancel"
    /\ tick.expired # <<>>
    /\ \E id \in DOMAIN active_orders : active_orders[id].created_at = current_time

RegimeLines(o) == Cardinality({i \in 1..Len(o) : o[i].tag = "regime"})

(* C28: the announcement step prints the regime line exactly when the      *)
(* current regime differs from the last announced one and leaves the last  *)
(* announced regime equal to the current one; no other step prints the     *)
(* line or changes the last announced regime.  The step comes after the    *)
(* price advance, which has used the parameters of the regime being        *)
(* announced, and from it to the transition step of the same tick the last *)
(* announced regime is the current one: a change made by the drain step is *)
(* announced in its own tick, while the Markov step prints nothing, so its *)
(* change waits for the announcement step of the next unpaused tick.       *)
C28_RegimeAnnouncement ==
    /\ [][(pc = "announce" /\ pc' # pc) =>
            /\ IF state.current # last_printed_regime
               THEN out' = Append(out, Event("regime", 0))
               ELSE out' = out
            /\ last_printed_regime' = state.current
            /\ state' = state]_vars
    /\ [][(RegimeLines(out') > RegimeLines(out)
              \/ last_printed_regime' # last_printed_regime) => pc = "announce"]_vars
    /\ [](pc = "announce" => params = state.current)
    /\ [][(pc = "gbm" /\ pc' # pc) => (pc' = "announce" /\ params' = state.current)]_vars
    /\ [](pc \in {"limits", "markets", "shuffle", "send", "expire", "cancel",
                  "display", "transition"} => last_printed_regime = state.current)
    /\ [][(pc = "transition" /\ pc' # pc) =>
            (pc' = "advance" /\ UNCHANGED <<out, last_printed_regime>>)]_vars

(* The regime the Markov step of the tick before moved to has been         *)
(* announced, after the price advance of this tick.                        *)
C28_Witness ==
    /\ pc = "limits"
    /\ out = <<Event("regime", 0)>>
    /\ state.time_in_regime = 0
    /\ state.previous # state.current
    /\ params = state.current
    /\ last_printed_regime = state.current

(* C29: the drain step that applies `stats` prints one line with the time, *)
(* mid, regime, active count, paused flag and throughput as they are at    *)
(* that moment, the commands drained before it applied, and changes        *)
(* nothing else of the engine's state.                                     *)
C29_StatsChangesNothing ==
    [][(pc = "drain" /\ queue # <<>> /\ Head(queue).kind = "Stats"
           /\ queue' = Tail(queue)) =>
          /\ out' = Append(out, StatsLine)
          /\ pc' = "drain"
          /\ UNCHANGED <<runtime, state, mid, current_time, next_id, active_orders,
                         stats, forced_event_fired, last_printed_regime,
                         time_since_display, params, tick_orders, wire, warnings>>]_vars

(* `pause` and then `stats` were drained in one pass after the first tick: *)
(* the snapshot shows the engine paused.                                   *)
C29_Witness ==
    /\ pc = "drain"
    /\ current_time >= 1
    /\ Len(out) = 2
    /\ out[1].tag = "control pause"
    /\ out[2].tag = "control stats"
    /\ out[2].paused
    /\ out[2].t = current_time

(* The three lines a failed reload can print. *)
ReloadFailures == {"reload unavailable", "reload read failed", "reload parse failed"}

(* C30: the drain step that applies `reload` prints exactly one line and    *)
(* leaves the paused flag, the regime state, the mid, the clock, the order  *)
(* index and the counters alone; when the line is the success line a path   *)
(* was captured and the three tunables are the values of a readable file;   *)
(* otherwise the line is one of the three failure lines, no tunable has     *)
(* changed, and without a path the line is the `unavailable` one.           *)
C30_ReloadChangesOnlyTunables ==
    [][(pc = "drain" /\ queue # <<>> /\ Head(queue).kind = "Reload"
           /\ queue' = Tail(queue)) =>
          /\ Len(out') = Len(out) + 1
          /\ SubSeq(out', 1, Len(out)) = out
          /\ runtime'.paused = runtime.paused
          /\ UNCHANGED <<state, mid, current_time, next_id, active_orders, stats,
                         forced_event_fired, last_printed_regime,
                         time_since_display, params, tick_orders, wire>>
          /\ LET line == out'[Len(out')]
             IN  IF line.tag = "control reload ok"
                 THEN /\ cfg.config_path
                      /\ \E file \in env.reloads :
                            /\ file.ok
                            /\ runtime' = [runtime EXCEPT
                                              !.throughput_scale = file.v[1],
                                              !.display_interval = file.v[2],
                                              !.shock_prob = file.v[3]]
                 ELSE /\ line.tag \in ReloadFailures
                      /\ runtime' = runtime
                      /\ ~cfg.config_path => line.tag = "reload unavailable"]_vars

(* A paused engine has just reloaded a file that differs from the startup   *)
(* configuration in all three tunables, and is still paused.                *)
C30_Witness ==
    /\ pc = "drain"
    /\ Len(out) = 2
    /\ out[1].tag = "control pause"
    /\ out[2].tag = "control reload ok"
    /\ runtime.paused
    /\ runtime.throughput_scale = 1 /\ cfg.throughput_scale = 0
    /\ runtime.display_interval = 1 /\ cfg.display_interval = 2
    /\ runtime.shock_prob = 100 /\ cfg.shock_prob = 0

(* The step appends a summary block to the output. *)
SummaryEmitted ==
    /\ Len(out') = Len(out) + 1
    /\ out'[Len(out')].tag = "summary"

(* C31: once a tick has sent its orders and cancels, messages_sent is the   *)
(* sum of the four other counters; the step that emits a summary leaves     *)
(* all five counters and the display accumulator at zero; and the display   *)
(* step emits a summary exactly when the accumulator plus one tick interval *)
(* is at least the display interval in force, no other step emitting one.   *)
C31_CountersAndSummary ==
    /\ [](pc \in {"display", "transition", "advance"} =>
            stats.messages_sent = stats.limits_generated + stats.markets_generated
                                    + stats.cancels_expired + stats.cancels_regime)
    /\ [][SummaryEmitted =>
            /\ stats'.limits_generated = 0
            /\ stats'.markets_generated = 0
            /\ stats'.cancels_expired = 0
            /\ stats'.cancels_regime = 0
            /\ stats'.messages_sent = 0
            /\ time_since_display' = 0]_vars
    /\ [][SummaryEmitted <=>
            /\ pc = "display"
            /\ pc' = "transition"
            /\ time_since_display + dt_seconds >= runtime.display_interval]_vars

(* A summary has just been emitted, two ticks into the run, in a tick that   *)
(* sent limit orders and cancelled an expired one.                          *)
C31_Witness ==
    /\ pc = "transition"
    /\ out # <<>>
    /\ out[Len(out)].tag = "summary"
    /\ tick.num_limits > 0
    /\ tick.expired # <<>>
    /\ current_time >= 1
    /\ stats.messages_sent = 0
    /\ time_since_display = 0

(* C32: in every state regime_duration lies between min_duration and        *)
(* max_duration of the current regime, whichever of the initial draw, a     *)
(* Markov step, a shock, the forced event with its flash-crash override or  *)
(* a `regime` command wrote it last.                                        *)
C32_DurationInWindow ==
    /\ Params(state.current).min_duration <= state.regime_duration
    /\ state.regime_duration <= Params(state.current).max_duration

(* The forced event of flash-crash has just put the run in crash with the   *)
(* upper end of the override, which no draw from crash's own window gives   *)
(* here, after a `regime` command had moved the run before it.              *)
C32_Witness ==
    /\ pc = "shock"
    /\ forced_event_fired
    /\ state.current = Crash
    /\ state.regime_duration = 7
    /\ state.time_in_regime = 0
    /\ Len(out) = 2
    /\ out[1].tag = "control regime"
    /\ out[2].tag = "forced event"

(* A non-zero entry of the Markov matrix. *)
MarkovEdge(from, to) == TRANSITION_PROB[from][Index(to)] > 0

(* Calm or recovery to crash or rally. *)
ShockEdge(from, to) == from \in {Calm, Recovery} /\ to \in {Crash, Rally}

(* Any regime to the regime the scenario forces, if it forces one. *)
ForcedEdge(from, to) ==
    scenario_cfg.forced_event_time > 0 /\ to = scenario_cfg.forced_regime

(* C33: without control commands every step that changes the regime tag is *)
(* the transition step along a non-zero entry of the Markov matrix, the     *)
(* shock step from calm or recovery to crash or rally, or the forced-event  *)
(* step to the scenario's forced regime; no step goes from calm to          *)
(* recovery or from crash to calm, and calm is entered only from volatile   *)
(* or recovery.                                                             *)
C33_RegimeEdges ==
    [][state'.current # state.current =>
          /\ \/ pc = "transition" /\ MarkovEdge(state.current, state'.current)
             \/ pc = "shock" /\ ShockEdge(state.current, state'.current)
             \/ pc = "forced" /\ ForcedEdge(state.current, state'.current)
          /\ ~(state.current = Calm /\ state'.current = Recovery)
          /\ ~(state.current = Crash /\ state'.current = Calm)
          /\ state'.current = Calm => state.current \in {Volatile, Recovery}
          /\ state'.previous = state.current]_vars

(* A shock took the run from calm to crash, and Markov steps took it on to  *)
(* recovery and from there back to calm.                                    *)
C33_Witness ==
    /\ pc = "advance"
    /\ state.current = Calm
    /\ state.previous = Recovery
    /\ state.time_in_regime = 0
    /\ current_time >= 4

(* The pause and resume commands waiting in the channel, oldest first. *)
Toggles == SelectSeq(queue, LAMBDA c : c.kind \in {"Pause", "Resume"})

(* The kind of the newest of them. *)
LastToggle == IF Toggles = <<>> THEN "none" ELSE Toggles[Len(Toggles)].kind

(* The engine thread pops a command while the paused flag is set. *)
DrainsWhilePaused ==
    /\ pc = "drain"
    /\ runtime.paused
    /\ queue # <<>>
    /\ queue' = Tail(queue)

(* The forced event or a shock has changed the regime in this iteration. *)
RegimeMovedInTick ==
    \E i \in 1..Len(out) : out[i].tag \in {"forced event", "shock triggered regime"}

(* The statement as the specification has it: the regime a command set     *)
(* during the pause is the regime of the first tick after it.              *)
C34_PausedRegimeInForce ==
    (pc = "limits" /\ pause_regime.some) => params = pause_regime.v

(* C34: a paused engine is always between the loop condition and the pause  *)
(* check, and every command it pops there is applied at once: resume clears *)
(* the flag, regime, rate and display set the regime and the tunables;      *)
(* nothing but the drain changes tunables, regime or clock while paused,    *)
(* and nothing but the drain ever changes the tunables, so they are in      *)
(* force in the next tick; the regime set during the pause is the one the   *)
(* next tick uses unless that tick's forced event or shock replaced it      *)
(* first; and a paused engine with a resume waiting in the channel reaches  *)
(* an unpaused tick, unless a pause arrives behind the resume or the run is *)
(* shut down.                                                               *)
C34_PauseStillDrains ==
    /\ [](runtime.paused => pc \in {"loop", "drain", "pause", "shutdown", "done"})
    /\ [][DrainsWhilePaused =>
            LET c == Head(queue)
            IN  /\ c.kind = "Resume" => ~runtime'.paused
                /\ c.kind = "Regime" =>
                      state'.current = c.r /\ state'.time_in_regime = 0
                /\ (c.kind = "Throughput" /\ c.v >= 0) =>
                      runtime'.throughput_scale = c.v
                /\ (c.kind = "DisplayInterval" /\ c.v > 0) =>
                      runtime'.display_interval = c.v]_vars
    /\ [][(runtime.paused /\ pc # "drain") =>
            UNCHANGED <<runtime, state, current_time>>]_vars
    /\ [][pc # "drain" => UNCHANGED runtime]_vars
    /\ []((pc = "limits" /\ pause_regime.some) =>
            (params = pause_regime.v \/ RegimeMovedInTick))
    /\ (runtime.paused /\ LastToggle = "Resume")
          ~> (pc = "forced" \/ ~running \/ LastToggle = "Pause")

(* The first tick after a resume uses the parameters of the regime a        *)
(* command set while the engine was paused.                                 *)
C34_Witness ==
    /\ pc = "limits"
    /\ pause_regime.some
    /\ pause_regime.v = Recovery
    /\ params = Recovery
    /\ ~runtime.paused

====
